---- MODULE Spec2Model ----
(***************************************************************************)
(* Model of the HuskyLens protocol driver (src/lib/qwiic_huskylens.py):    *)
(* packet construction and decoding, the framing reader, the multi-packet  *)
(* aggregation handlers and the session operations built on them.          *)
(*                                                                         *)
(* Several specifications share the module and its variables:             *)
(*   SpecCodec  exercises the pure packet functions (_send_command,        *)
(*              _Response, _get_response) on bounded inputs;               *)
(*   SpecSync   is _get_response step by step, with fairness;              *)
(*   Spec       is the session: one action per public driver operation,    *)
(*              each consuming the bytes the device delivers on the bus;   *)
(*   SpecFetch, SpecSnapshot, SpecClient, SpecStatus, SpecCommand and      *)
(*   SpecDriver run subsets of the operations against their own inputs.    *)
(***************************************************************************)
EXTENDS Integers, Sequences, FiniteSets, TLC

(***************************************************************************)
(* Wire constants (decimal values of the source's hexadecimal literals).   *)
(***************************************************************************)
kHeader1 == 85
kHeader2 == 170
kProtocolAddress == 17
kByteMask == 255

kCommandRequest == 32
kCommandRequestBlocks == 33
kCommandRequestArrows == 34
kCommandRequestLearned == 35
kCommandRequestBlocksLearned == 36
kCommandRequestArrowsLearned == 37
kCommandRequestById == 38
kCommandRequestBlocksById == 39
kCommandRequestArrowsById == 40
kCommandReturnInfo == 41
kCommandReturnBlock == 42
kCommandReturnArrow == 43
kCommandRequestKnock == 44
kCommandRequestAlgorithm == 45
kCommandReturnOk == 46
kCommandRequestCustomNames == 47
kCommandRequestPhoto == 48
kCommandRequestSendKnowledges == 50
kCommandRequestReceiveKnowledges == 51
kCommandRequestCustomText == 52
kCommandRequestClearText == 53
kCommandRequestLearn == 54
kCommandRequestForget == 55
kCommandRequestSaveScreenshot == 57
kCommandRequestIsPro == 59
kCommandReturnIsPro == 59
kCommandReturnBusy == 61
kCommandReturnNeedPro == 62

kAlgorithmFaceRecognition == 0
kAlgorithmObjectTracking == 1
kAlgorithmObjectRecognition == 2
kAlgorithmLineTracking == 3
kAlgorithmColorRecognition == 4
kAlgorithmTagRecognition == 5
kAlgorithmObjectClassification == 6

(***************************************************************************)
(* Bounds of the model.                                                    *)
(***************************************************************************)
\* longest payload handed to _send_command in SpecCodec
MaxPayloadLen == 2
\* longest run of garbage bytes put in front of a frame
MaxGarbage == 2
\* largest record count an info envelope declares
MaxRecords == 2
\* cap on the learned-id counter (learn_new is disabled beyond it)
MaxLearned == 1
\* cap on the unread device bytes left on the bus after an operation of Spec
MaxPending == 6
\* cap on the unread device bytes left on the bus after an operation of SpecFetch
MaxFetchPending == 16
\* cap on the unread device bytes left on the bus after a pass of a script's
\* loop
MaxLoopPending == 32
\* cap on the calls of drivetrain.straight tag_recognition.py makes
MaxStraights == 3
\* requests one wait_for_* call may send before its loop ends
MaxWaitRounds == 2
\* the count of bytes read by the synchronisation loop stops growing here
MaxDiscard == 3

(***************************************************************************)
(* Arithmetic helpers.                                                     *)
(***************************************************************************)
RECURSIVE SumSeq(_)
\* Python's sum() over a list of ints
SumSeq(s) == IF s = <<>> THEN 0 ELSE Head(s) + SumSeq(Tail(s))

\* x & 0xFF for a non-negative int
LowByte(x) == x % (kByteMask + 1)

\* mutant: the high byte is taken one bit too low
HighByte_shift7(x) == x \div 128

\* x >> 8 for a non-negative int
HighByte(x) == x \div (kByteMask + 1)

\* the second byte shifted by 7 bits instead of 8
LE16_shift7(data, i) == data[i + 1] + data[i + 2] * 128

\* data[i] + (data[i+1] << 8) with Python's 0-based index i
LE16(data, i) == data[i + 1] + data[i + 2] * 256

(***************************************************************************)
(* PacketCodec: _checksum, _send_command, _Response.                       *)
(***************************************************************************)
\* mutant: the checksum leaves the two header bytes out
_checksum_noheader(pkt) == LowByte(SumSeq(SubSeq(pkt, 3, Len(pkt))))

\* sum(pkt) & 0xFF
_checksum(pkt) == LowByte(SumSeq(pkt))

\* The bytes _send_command writes on the bus: write_block(address, pkt[0],
\* pkt[1:]) puts pkt[0] first and the rest after it, i.e. pkt itself.
\* data = <<>> stands for both data=None and data=[] (dlen is 0 for both).
_send_command(command, data) ==
    LET pkt == <<kHeader1, kHeader2, kProtocolAddress, Len(data), command>> \o data
    IN  Append(pkt, _checksum(pkt))

\* mutant: validity recomputed over the bytes after the header only
_Response_noheader(pkt) ==
    [header   |-> pkt[1],
     header2  |-> pkt[2],
     address  |-> pkt[3],
     dlen     |-> pkt[4],
     command  |-> pkt[5],
     data     |-> SubSeq(pkt, 6, Len(pkt) - 1),
     checksum |-> pkt[Len(pkt)],
     valid    |-> pkt[Len(pkt)] = LowByte(SumSeq(SubSeq(pkt, 3, Len(pkt) - 1)))]

\* class _Response: pkt[0..4] are the fixed header, pkt[5:-1] the payload,
\* pkt[-1] the checksum; valid compares it with sum(pkt[:-1]) & 0xFF.
_Response(pkt) ==
    [header   |-> pkt[1],
     header2  |-> pkt[2],
     address  |-> pkt[3],
     dlen     |-> pkt[4],
     command  |-> pkt[5],
     data     |-> SubSeq(pkt, 6, Len(pkt) - 1),
     checksum |-> pkt[Len(pkt)],
     valid    |-> pkt[Len(pkt)] = LowByte(SumSeq(SubSeq(pkt, 1, Len(pkt) - 1)))]

(***************************************************************************)
(* ResponseReader: _get_response over the bytes the bus delivers.          *)
(***************************************************************************)
RECURSIVE SyncIndex(_, _)
\* The while loop of _get_response: read_byte until a byte equals 0x55.
\* Returns the 1-based position of that byte in stream at or after i, or 0
\* when the stream ends first (the loop is still reading).
SyncIndex(stream, i) ==
    IF i > Len(stream) THEN 0
    ELSE IF stream[i] = kHeader1 THEN i
    ELSE SyncIndex(stream, i + 1)

\* mutant: the second block read takes one byte, whatever length is declared
_get_response_fixedlen(stream) ==
    LET s    == SyncIndex(stream, 1)
        have == s # 0 /\ Len(stream) >= s + 4
        last == s + 5
        ok   == have /\ Len(stream) >= last
    IN  [done     |-> ok,
         response |-> IF ok THEN _Response(SubSeq(stream, s, last))
                      ELSE _Response(<<0, 0, 0, 0, 0, 0>>),
         consumed |-> IF ok THEN last ELSE 0]

\* mutant: the second block read leaves out the checksum byte
_get_response_nochecksum(stream) ==
    LET s    == SyncIndex(stream, 1)
        have == s # 0 /\ Len(stream) >= s + 4
        left == IF have THEN stream[s + 3] ELSE 0
        last == s + 4 + left
        ok   == have /\ Len(stream) >= last
    IN  [done     |-> ok,
         response |-> IF ok THEN _Response(SubSeq(stream, s, last))
                      ELSE _Response(<<0, 0, 0, 0, 0, 0>>),
         consumed |-> IF ok THEN last ELSE 0]

\* _get_response: discard bytes up to the first 0x55, read 4 more bytes, then
\* readBytes[3] + 1 further bytes, and decode all of them. done is FALSE when
\* the stream ends before the reads are complete (the call is still blocked);
\* consumed is the number of bytes taken off the bus.
_get_response(stream) ==
    LET s    == SyncIndex(stream, 1)
        have == s # 0 /\ Len(stream) >= s + 4
        left == IF have THEN stream[s + 3] + 1 ELSE 0
        last == s + 4 + left
        ok   == have /\ Len(stream) >= last
    IN  [done     |-> ok,
         response |-> IF ok THEN _Response(SubSeq(stream, s, last))
                      ELSE _Response(<<0, 0, 0, 0, 0, 0>>),
         consumed |-> IF ok THEN last ELSE 0]

(***************************************************************************)
(* Record decoders: _ReturnInfo, Block, Arrow.  Each indexes resp.data     *)
(* directly, so a payload shorter than the layout raises IndexError before *)
(* the object exists; the *_raises predicates say when.                    *)
(***************************************************************************)
kReturnInfoLen == 6
kRecordLen == 10

\* _ReturnInfo.__init__ reads data[0..5]
_ReturnInfo_raises(resp) == Len(resp.data) < kReturnInfoLen

_ReturnInfo(resp) ==
    [nBlocksAndArrows |-> LE16(resp.data, 0),
     nIDs             |-> LE16(resp.data, 2),
     frameNumber      |-> LE16(resp.data, 4)]

\* Block.__init__ and Arrow.__init__ read data[0..9]
Record_raises(resp) == Len(resp.data) < kRecordLen

Block(resp) ==
    [xCenter |-> LE16(resp.data, 0),
     yCenter |-> LE16(resp.data, 2),
     width   |-> LE16(resp.data, 4),
     height  |-> LE16(resp.data, 6),
     id      |-> LE16(resp.data, 8)]

Arrow(resp) ==
    [xOrigin |-> LE16(resp.data, 0),
     yOrigin |-> LE16(resp.data, 2),
     xTarget |-> LE16(resp.data, 4),
     yTarget |-> LE16(resp.data, 6),
     id      |-> LE16(resp.data, 8)]

\* Python's None as a list entry ([None] * n)
None == [none |-> TRUE]

\* [None] * n
NoneList(n) == [i \in 1..n |-> None]

\* the bytes of stream after the first n
Drop(stream, n) == SubSeq(stream, n + 1, Len(stream))

(***************************************************************************)
(* ResultAggregator.  A handler is given the envelope response, the bytes  *)
(* the bus still holds and the session fields it may assign; it returns    *)
(*   ret      "True" | "False" | "IndexError" (an uncaught exception)       *)
(*   done     FALSE when a read it needs is not satisfied by the stream     *)
(*   blocks, arrows, nLearned   the session fields as the handler leaves    *)
(*            them                                                          *)
(*   rest     the bytes left unread on the bus                              *)
(*   reads    the responses read after the envelope, in order.              *)
(***************************************************************************)
Outcome(r, d, b, a, n, rest, reads) ==
    [ret |-> r, done |-> d, blocks |-> b, arrows |-> a, nLearned |-> n,
     rest |-> rest, reads |-> reads]

RECURSIVE BlocksLoop(_, _, _, _, _, _, _)
\* for i in range(nBlocksAndArrows) of _handle_response_blocks
BlocksLoop(i, n, stream, b, a, nl, reads) ==
    IF i >= n THEN Outcome("True", TRUE, b, a, nl, stream, reads)
    ELSE LET g == _get_response(stream)
             rest == Drop(stream, g.consumed)
             rd == Append(reads, g.response)
         IN  IF ~g.done THEN Outcome("False", FALSE, b, a, nl, stream, reads)
             ELSE IF ~g.response.valid \/ g.response.command # kCommandReturnBlock
                  THEN Outcome("False", TRUE, b, a, nl, rest, rd)
             ELSE IF Record_raises(g.response)
                  THEN Outcome("IndexError", TRUE, b, a, nl, rest, rd)
             ELSE BlocksLoop(i + 1, n, rest,
                             [b EXCEPT ![i + 1] = Block(g.response)], a, nl, rd)

\* mutant: the blocks handler empties the arrows snapshot as the mixed one does
_handle_response_blocks_cleararrows(response, stream, b, a, nl) ==
    IF ~response.valid \/ response.command # kCommandReturnInfo
    THEN Outcome("False", TRUE, b, a, nl, stream, <<>>)
    ELSE IF _ReturnInfo_raises(response)
    THEN Outcome("IndexError", TRUE, b, a, nl, stream, <<>>)
    ELSE LET returnInfo == _ReturnInfo(response)
         IN  BlocksLoop(0, returnInfo.nBlocksAndArrows, stream,
                        NoneList(returnInfo.nBlocksAndArrows), <<>>,
                        returnInfo.nIDs, <<>>)

\* mutant: one record more than the envelope declares is read
_handle_response_blocks_greedy(response, stream, b, a, nl) ==
    IF ~response.valid \/ response.command # kCommandReturnInfo
    THEN Outcome("False", TRUE, b, a, nl, stream, <<>>)
    ELSE IF _ReturnInfo_raises(response)
    THEN Outcome("IndexError", TRUE, b, a, nl, stream, <<>>)
    ELSE LET returnInfo == _ReturnInfo(response)
         IN  BlocksLoop(0, returnInfo.nBlocksAndArrows + 1, stream,
                        NoneList(returnInfo.nBlocksAndArrows + 1), a,
                        returnInfo.nIDs, <<>>)

\* mutant: the new entries are added after the blocks already stored
_handle_response_blocks_extend(response, stream, b, a, nl) ==
    IF ~response.valid \/ response.command # kCommandReturnInfo
    THEN Outcome("False", TRUE, b, a, nl, stream, <<>>)
    ELSE IF _ReturnInfo_raises(response)
    THEN Outcome("IndexError", TRUE, b, a, nl, stream, <<>>)
    ELSE LET returnInfo == _ReturnInfo(response)
         IN  BlocksLoop(0, returnInfo.nBlocksAndArrows, stream,
                        b \o NoneList(returnInfo.nBlocksAndArrows), a,
                        returnInfo.nIDs, <<>>)

_handle_response_blocks(response, stream, b, a, nl) ==
    IF ~response.valid \/ response.command # kCommandReturnInfo
    THEN Outcome("False", TRUE, b, a, nl, stream, <<>>)
    ELSE IF _ReturnInfo_raises(response)
    THEN Outcome("IndexError", TRUE, b, a, nl, stream, <<>>)
    ELSE LET returnInfo == _ReturnInfo(response)
         IN  BlocksLoop(0, returnInfo.nBlocksAndArrows, stream,
                        NoneList(returnInfo.nBlocksAndArrows), a,
                        returnInfo.nIDs, <<>>)

RECURSIVE ArrowsLoop(_, _, _, _, _, _, _)
\* for i in range(nBlocksAndArrows) of _handle_response_arrows
ArrowsLoop(i, n, stream, b, a, nl, reads) ==
    IF i >= n THEN Outcome("True", TRUE, b, a, nl, stream, reads)
    ELSE LET g == _get_response(stream)
             rest == Drop(stream, g.consumed)
             rd == Append(reads, g.response)
         IN  IF ~g.done THEN Outcome("False", FALSE, b, a, nl, stream, reads)
             ELSE IF ~g.response.valid \/ g.response.command # kCommandReturnArrow
                  THEN Outcome("False", TRUE, b, a, nl, rest, rd)
             ELSE IF Record_raises(g.response)
                  THEN Outcome("IndexError", TRUE, b, a, nl, rest, rd)
             ELSE ArrowsLoop(i + 1, n, rest, b,
                             [a EXCEPT ![i + 1] = Arrow(g.response)], nl, rd)

_handle_response_arrows(response, stream, b, a, nl) ==
    IF ~response.valid \/ response.command # kCommandReturnInfo
    THEN Outcome("False", TRUE, b, a, nl, stream, <<>>)
    ELSE IF _ReturnInfo_raises(response)
    THEN Outcome("IndexError", TRUE, b, a, nl, stream, <<>>)
    ELSE LET returnInfo == _ReturnInfo(response)
         IN  ArrowsLoop(0, returnInfo.nBlocksAndArrows, stream, b,
                        NoneList(returnInfo.nBlocksAndArrows),
                        returnInfo.nIDs, <<>>)

RECURSIVE MixedLoop_skip(_, _, _, _, _, _, _)
\* mutant: an invalid or unexpected packet is skipped and the loop reads on
MixedLoop_skip(i, n, stream, b, a, nl, reads) ==
    IF i >= n THEN Outcome("True", TRUE, b, a, nl, stream, reads)
    ELSE LET g == _get_response(stream)
             rest == Drop(stream, g.consumed)
             rd == Append(reads, g.response)
         IN  IF ~g.done THEN Outcome("False", FALSE, b, a, nl, stream, reads)
             ELSE IF ~g.response.valid
                  THEN MixedLoop_skip(i + 1, n, rest, b, a, nl, rd)
             ELSE IF g.response.command = kCommandReturnBlock
                  THEN IF Record_raises(g.response)
                       THEN Outcome("IndexError", TRUE, b, a, nl, rest, rd)
                       ELSE MixedLoop_skip(i + 1, n, rest,
                                           Append(b, Block(g.response)), a, nl, rd)
             ELSE IF g.response.command = kCommandReturnArrow
                  THEN IF Record_raises(g.response)
                       THEN Outcome("IndexError", TRUE, b, a, nl, rest, rd)
                       ELSE MixedLoop_skip(i + 1, n, rest, b,
                                           Append(a, Arrow(g.response)), nl, rd)
             ELSE MixedLoop_skip(i + 1, n, rest, b, a, nl, rd)

RECURSIVE MixedLoop(_, _, _, _, _, _, _)
\* for i in range(nBlocksAndArrows) of _handle_response_mixed
MixedLoop(i, n, stream, b, a, nl, reads) ==
    IF i >= n THEN Outcome("True", TRUE, b, a, nl, stream, reads)
    ELSE LET g == _get_response(stream)
             rest == Drop(stream, g.consumed)
             rd == Append(reads, g.response)
         IN  IF ~g.done THEN Outcome("False", FALSE, b, a, nl, stream, reads)
             ELSE IF ~g.response.valid
                  THEN Outcome("False", TRUE, b, a, nl, rest, rd)
             ELSE IF g.response.command = kCommandReturnBlock
                  THEN IF Record_raises(g.response)
                       THEN Outcome("IndexError", TRUE, b, a, nl, rest, rd)
                       ELSE MixedLoop(i + 1, n, rest,
                                      Append(b, Block(g.response)), a, nl, rd)
             ELSE IF g.response.command = kCommandReturnArrow
                  THEN IF Record_raises(g.response)
                       THEN Outcome("IndexError", TRUE, b, a, nl, rest, rd)
                       ELSE MixedLoop(i + 1, n, rest, b,
                                      Append(a, Arrow(g.response)), nl, rd)
             ELSE Outcome("False", TRUE, b, a, nl, rest, rd)

\* mutant: the learned-id count is not taken from the envelope
_handle_response_mixed_keepcount(response, stream, b, a, nl) ==
    IF ~response.valid \/ response.command # kCommandReturnInfo
    THEN Outcome("False", TRUE, b, a, nl, stream, <<>>)
    ELSE IF _ReturnInfo_raises(response)
    THEN Outcome("IndexError", TRUE, b, a, nl, stream, <<>>)
    ELSE LET returnInfo == _ReturnInfo(response)
         IN  MixedLoop(0, returnInfo.nBlocksAndArrows, stream, <<>>, <<>>,
                       nl, <<>>)

_handle_response_mixed(response, stream, b, a, nl) ==
    IF ~response.valid \/ response.command # kCommandReturnInfo
    THEN Outcome("False", TRUE, b, a, nl, stream, <<>>)
    ELSE IF _ReturnInfo_raises(response)
    THEN Outcome("IndexError", TRUE, b, a, nl, stream, <<>>)
    ELSE LET returnInfo == _ReturnInfo(response)
         IN  MixedLoop(0, returnInfo.nBlocksAndArrows, stream, <<>>, <<>>,
                       returnInfo.nIDs, <<>>)

(***************************************************************************)
(* State.                                                                  *)
(***************************************************************************)
VARIABLES
    \* self._i2c: "driver" for an I2C driver, "None" when __init__ found none
    _i2c,
    \* DeviceSession fields (QwiicHuskyLens.__init__)
    blocks, arrows, nLearned, idToName,
    \* the names of the session fields that have not been assigned: reading
    \* one of them raises AttributeError, and its variable holds no value of
    \* the program
    unset,
    \* bytes the device has delivered and the driver has not read yet
    bus,
    \* the unread bytes the last operation found on the bus, and the frames
    \* the device delivered in answer to it
    stale, answer,
    \* the last public operation: its name and arguments, its result, the
    \* packets it wrote and the responses it read, in order
    op, ret, written, reads,
    \* SpecCodec: inputs of _send_command, the bytes under test, the garbage
    \* in front of them, the decoded response, bytes consumed, and the step
    cCommand, cData, cWire, cGarbage, cTail, cResponse, cConsumed, cStage,
    \* the motion scripts: where the script is (pc), the last speeds given to
    \* drivetrain.set_speed, and the calls of drivetrain.straight so far
    pc, left_speed, right_speed, rams,
    \* ram_object: its state machine, its count of centered frames, and the
    \* number of loop passes in a row whose fetch succeeded and showed the
    \* basket centered
    current_state, align_counter, centered_run,
    \* track_object: its smoothing buffers and reference area, and the frames
    \* of the loop since the last one without a tracked ensemble
    x_history, area_history, desired_area, seen_run,
    \* track_object, inside its calibration: the samples taken so far, and
    \* area_sum and valid_samples
    samples_taken, area_sum, valid_samples

session == <<blocks, arrows, nLearned, idToName>>
driver  == <<_i2c, unset, blocks, arrows, nLearned, idToName, bus, stale, answer, op, ret,
             written, reads>>
codec   == <<cCommand, cData, cWire, cGarbage, cTail, cResponse, cConsumed, cStage>>
robot   == <<pc, left_speed, right_speed, rams, current_state, align_counter, centered_run,
             x_history, area_history, desired_area, seen_run,
             samples_taken, area_sum, valid_samples>>
vars    == <<_i2c, unset,
             blocks, arrows, nLearned, idToName, bus, stale, answer, op, ret, written, reads,
             cCommand, cData, cWire, cGarbage, cTail, cResponse, cConsumed, cStage,
             pc, left_speed, right_speed, rams, current_state, align_counter, centered_run,
             x_history, area_history, desired_area, seen_run,
             samples_taken, area_sum, valid_samples>>

\* an empty dict
EmptyDict == [k \in {} |-> <<>>]

\* d[k] = v on a dict
DictSet(d, k, v) == [x \in (DOMAIN d) \cup {k} |-> IF x = k THEN v ELSE d[x]]

NoOp == [id |-> 0, name |-> "__init__", str |-> <<>>]
Call(name, id, str) == [id |-> id, name |-> name, str |-> str]

\* the session fields __init__ assigns after it has its I2C driver
SessionFields == {"blocks", "arrows", "nLearned", "idToName"}

\* no call has been made and the device has delivered nothing
NothingExchanged ==
    /\ bus = <<>>
    /\ stale = <<>>
    /\ answer = <<>>
    /\ op = NoOp
    /\ ret = "None"
    /\ written = <<>>
    /\ reads = <<>>

\* __init__ with an I2C driver, given or found by qwiic_i2c.getI2CDriver()
DriverLoaded ==
    /\ _i2c = "driver"
    /\ unset = {}
    /\ blocks = <<>>
    /\ arrows = <<>>
    /\ nLearned = 0
    /\ idToName = EmptyDict
    /\ NothingExchanged

\* __init__ with no driver given and none found: it prints and returns with
\* self._i2c = None, before any session field is assigned
DriverMissing ==
    /\ _i2c = "None"
    /\ unset = SessionFields
    /\ blocks = <<>>
    /\ arrows = <<>>
    /\ nLearned = 0
    /\ idToName = EmptyDict
    /\ NothingExchanged

DriverInit == DriverLoaded \/ DriverMissing

\* the scripts before their entry point runs: the module-level assignments
\* of ram_object.py (current_state) and track_object.py (desired_area,
\* x_history, area_history); no speed has been commanded
RobotIdle ==
    /\ pc = "idle"
    /\ left_speed = 0
    /\ right_speed = 0
    /\ rams = 0
    /\ current_state = 0
    /\ align_counter = 0
    /\ centered_run = 0
    /\ x_history = <<>>
    /\ area_history = <<>>
    /\ desired_area = None
    /\ seen_run = <<>>
    /\ samples_taken = 0
    /\ area_sum = 0
    /\ valid_samples = 0

CodecIdle ==
    /\ cCommand = 0
    /\ cData = <<>>
    /\ cWire = <<>>
    /\ cGarbage = <<>>
    /\ cTail = <<>>
    /\ cResponse = _Response(<<0, 0, 0, 0, 0, 0>>)
    /\ cConsumed = 0
    /\ cStage = "idle"

(***************************************************************************)
(* The device side of the bus: the frames it may deliver.                  *)
(***************************************************************************)
\* a well-formed frame as the device sends it
DevicePacket(command, data) ==
    LET body == <<kHeader1, kHeader2, kProtocolAddress, Len(data), command>> \o data
    IN  Append(body, SumSeq(body) % 256)

\* the frame with its checksum byte off by one
BadChecksum(pkt) == [pkt EXCEPT ![Len(pkt)] = (@ + 1) % 256]

\* payload of an info envelope
InfoData(n, ids, frame) ==
    <<n % 256, n \div 256, ids % 256, ids \div 256, frame % 256, frame \div 256>>

\* payload of a block or arrow record
RecordData(a, b, c, d, id) ==
    <<a % 256, a \div 256, b % 256, b \div 256, c % 256, c \div 256,
      d % 256, d \div 256, id % 256, id \div 256>>

Envelope(n, ids) == DevicePacket(kCommandReturnInfo, InfoData(n, ids, 7))
BlockPkt1 == DevicePacket(kCommandReturnBlock, RecordData(160, 120, 40, 30, 1))
BlockPkt2 == DevicePacket(kCommandReturnBlock, RecordData(300, 85, 320, 240, 2))
ArrowPkt1 == DevicePacket(kCommandReturnArrow, RecordData(10, 20, 170, 260, 1))
OkPkt == DevicePacket(kCommandReturnOk, <<>>)
BusyPkt == DevicePacket(kCommandReturnBusy, <<>>)
IsProPkt(v) == DevicePacket(kCommandReturnIsPro, <<v>>)
\* checksum-valid frames whose payload is shorter than the layout decoded
ShortIsProPkt == DevicePacket(kCommandReturnIsPro, <<>>)
ShortBlockPkt == DevicePacket(kCommandReturnBlock, <<1, 0, 2>>)
ShortArrowPkt == DevicePacket(kCommandReturnArrow, <<1, 0, 2, 0, 3, 0, 4, 0, 5>>)
ShortEnvelope == DevicePacket(kCommandReturnInfo, <<1, 0, 2, 0>>)

\* learned-id counts reported by an envelope that declares n records
LearnedFor(n) == IF n = 0 THEN {0, 2} ELSE {(n % 2) + 1}

\* ids passed to the by-id fetches and to request_learn
IdSamples == {258}

\* well-formed records
GoodRecords == {BlockPkt1, BlockPkt2, ArrowPkt1}

\* trailing packets no mode accepts: bad checksum, unexpected code, short layout
Offenders == {BadChecksum(BlockPkt1), OkPkt, ShortBlockPkt, ShortArrowPkt}

RECURSIVE Concat(_)
\* the frames of a sequence of frames, back to back
Concat(pkts) == IF pkts = <<>> THEN <<>> ELSE Head(pkts) \o Concat(Tail(pkts))

\* all sequences of exactly k well-formed records
GoodSeqs(k) == [1..k -> GoodRecords]

\* k copies of one well-formed record
SameSeqs(k) == { [i \in 1..k |-> r] : r \in {BlockPkt1, ArrowPkt1} }

\* n trailing packets: all well-formed, or k copies of a well-formed record,
\* then one offender, then copies of BlockPkt1 up to n packets
Trails(n) ==
    GoodSeqs(n) \cup
    UNION { { g \o <<bad>> \o [i \in 1..(n - k - 1) |-> BlockPkt1] :
              g \in SameSeqs(k), bad \in Offenders } : k \in 0..(n - 1) }

\* answers that hold one packet more than their envelope declares
Overlong ==
    { <<Envelope(0, 2), BlockPkt1>>, <<Envelope(1, 2), BlockPkt1, BlockPkt2>>,
      <<Envelope(1, 2), ArrowPkt1, ArrowPkt1>> }

\* what the device may deliver in answer to a fetch command, as a sequence
\* of frames
FetchResponses ==
    UNION { { <<Envelope(n, ids)>> \o t : t \in Trails(n), ids \in LearnedFor(n) } :
            n \in 0..MaxRecords }
    \cup { <<OkPkt>>, <<BusyPkt>>, <<BadChecksum(Envelope(1, 2)), BlockPkt1>>,
           <<ShortEnvelope>> }
    \cup Overlong


\* the fetch answers used where the fetches run among all other operations
SessionFetchResponses ==
    { <<Envelope(2, 1), ArrowPkt1, BlockPkt2>>,
      <<Envelope(1, 1), BlockPkt1>>,
      <<Envelope(1, 0), ArrowPkt1>>,
      <<ShortEnvelope>> }

\* what the device may deliver in answer to a status command
AckStatusResponses == { <<OkPkt>>, <<BusyPkt>>, <<BadChecksum(OkPkt)>> }

\* what the device may deliver in answer to the model-tier query
IsProResponses == { <<IsProPkt(1)>>, <<IsProPkt(0)>>, <<ShortIsProPkt>>, <<BusyPkt>> }

NeedProPkt == DevicePacket(kCommandReturnNeedPro, <<>>)

\* answers to a status command that tell the causes of a failure apart, and
\* answers of two packets
StatusResponses ==
    { <<OkPkt>>, <<BusyPkt>>, <<NeedProPkt>>, <<BadChecksum(OkPkt)>>,
      <<BadChecksum(BusyPkt)>>, <<IsProPkt(1)>>, <<IsProPkt(0)>>, <<ShortIsProPkt>>,
      <<BadChecksum(IsProPkt(1))>>, <<OkPkt, BusyPkt>>, <<BusyPkt, OkPkt>> }

\* what the device may deliver after a command whose reply the driver does not read
AckResponses == { <<>>, <<OkPkt>> }

(***************************************************************************)
(* Inputs of the operations.                                               *)
(***************************************************************************)
\* ids and names passed to request_custom_names; a name is the sequence of
\* its characters' code points ("X", "Hi")
NameIds == {1}
NameSamples == {<<88>>, <<72, 105>>}

\* the enumerated algorithm codes
Algorithms ==
    {kAlgorithmFaceRecognition, kAlgorithmObjectTracking,
     kAlgorithmObjectRecognition, kAlgorithmLineTracking,
     kAlgorithmColorRecognition, kAlgorithmTagRecognition,
     kAlgorithmObjectClassification}

\* codes passed to request_algorithm / set_algorithm
AlgorithmInputs == {-1, 0, 6, 7, 256}

\* Python's bool results
Bool(b) == IF b THEN "True" ELSE "False"

\* result of an operation that discards its handler's return value
Discard(r) == IF r = "IndexError" THEN "IndexError" ELSE "None"

(***************************************************************************)
(* Completion of an operation: the new session fields, what was written    *)
(* and read, and what stays unread on the bus.                             *)
(***************************************************************************)
Complete(o, resp, r, b, a, n, m, w, rd, rest) ==
    /\ Len(rest) <= MaxPending
    /\ stale' = bus
    /\ answer' = resp
    /\ op' = o
    /\ ret' = r
    /\ blocks' = b
    /\ arrows' = a
    /\ nLearned' = n
    /\ idToName' = m
    /\ written' = w
    /\ reads' = rd
    /\ bus' = rest
    /\ UNCHANGED <<_i2c, unset>>
    /\ UNCHANGED codec
    /\ UNCHANGED robot

\* the operation o raises AttributeError before it has written anything:
\* at self._i2c.write_block or self._i2c.isDeviceConnected when self._i2c is
\* None, or at the read of a session field that is not assigned; n and m are
\* the learned-id count and the name mapping it has assigned before that,
\* and u the fields still not assigned
Raised(o, n, m, u) ==
    /\ stale' = bus
    /\ answer' = <<>>
    /\ op' = o
    /\ ret' = "AttributeError"
    /\ nLearned' = n
    /\ idToName' = m
    /\ unset' = u
    /\ written' = <<>>
    /\ reads' = <<>>
    /\ UNCHANGED <<_i2c, blocks, arrows, bus>>
    /\ UNCHANGED codec
    /\ UNCHANGED robot

\* completion of an operation that writes a command first
Finish(o, resp, r, b, a, n, m, w, rd, rest) ==
    IF _i2c = "None"
    THEN Raised(o, nLearned, idToName, unset)
    ELSE Complete(o, resp, r, b, a, n, m, w, rd, rest)

\* completion of a fetch: h is the handler's outcome
FetchComplete(o, resp, r, h, w, rd, cap) ==
    /\ Len(h.rest) <= cap
    /\ stale' = bus
    /\ answer' = resp
    /\ op' = o
    /\ ret' = r
    /\ blocks' = h.blocks
    /\ arrows' = h.arrows
    /\ nLearned' = h.nLearned
    /\ idToName' = idToName
    /\ written' = w
    /\ reads' = rd
    /\ bus' = h.rest
    /\ UNCHANGED <<_i2c, unset>>
    /\ UNCHANGED codec
    /\ UNCHANGED robot

FinishFetch(o, resp, r, h, w, rd, cap) ==
    IF _i2c = "None"
    THEN Raised(o, nLearned, idToName, unset)
    ELSE FetchComplete(o, resp, r, h, w, rd, cap)

(***************************************************************************)
(* Fetch operations.  X_from(R, cap) is operation X with the device's      *)
(* answer drawn from R and at most cap bytes left unread.  The by-id       *)
(* fetches call the handler and drop what it returns.                      *)
(***************************************************************************)
request_from(R, cap) ==
    \E resp \in R :
        \E g \in {_get_response(bus \o Concat(resp))} :
        \E h \in {_handle_response_mixed(g.response, Drop(bus \o Concat(resp), g.consumed),
                                           blocks, arrows, nLearned)} :
        LET w == _send_command(kCommandRequest, <<>>)
        IN  /\ g.done
            /\ h.done
            /\ FinishFetch(Call("request", 0, <<>>), resp, h.ret, h, <<w>>,
                           <<g.response>> \o h.reads, cap)

request == request_from(SessionFetchResponses, MaxPending)

request_blocks_from(R, cap) ==
    \E resp \in R :
        \E g \in {_get_response(bus \o Concat(resp))} :
        \E h \in {_handle_response_blocks(g.response, Drop(bus \o Concat(resp), g.consumed),
                                           blocks, arrows, nLearned)} :
        LET w == _send_command(kCommandRequestBlocks, <<>>)
        IN  /\ g.done
            /\ h.done
            /\ FinishFetch(Call("request_blocks", 0, <<>>), resp, h.ret, h, <<w>>,
                           <<g.response>> \o h.reads, cap)

request_blocks == request_blocks_from(SessionFetchResponses, MaxPending)

request_arrows_from(R, cap) ==
    \E resp \in R :
        \E g \in {_get_response(bus \o Concat(resp))} :
        \E h \in {_handle_response_arrows(g.response, Drop(bus \o Concat(resp), g.consumed),
                                           blocks, arrows, nLearned)} :
        LET w == _send_command(kCommandRequestArrows, <<>>)
        IN  /\ g.done
            /\ h.done
            /\ FinishFetch(Call("request_arrows", 0, <<>>), resp, h.ret, h, <<w>>,
                           <<g.response>> \o h.reads, cap)

request_arrows == request_arrows_from(SessionFetchResponses, MaxPending)

request_learned_from(R, cap) ==
    \E resp \in R :
        \E g \in {_get_response(bus \o Concat(resp))} :
        \E h \in {_handle_response_mixed(g.response, Drop(bus \o Concat(resp), g.consumed),
                                           blocks, arrows, nLearned)} :
        LET w == _send_command(kCommandRequestLearned, <<>>)
        IN  /\ g.done
            /\ h.done
            /\ FinishFetch(Call("request_learned", 0, <<>>), resp, h.ret, h, <<w>>,
                           <<g.response>> \o h.reads, cap)

request_learned == request_learned_from(SessionFetchResponses, MaxPending)

request_blocks_learned_from(R, cap) ==
    \E resp \in R :
        \E g \in {_get_response(bus \o Concat(resp))} :
        \E h \in {_handle_response_blocks(g.response, Drop(bus \o Concat(resp), g.consumed),
                                           blocks, arrows, nLearned)} :
        LET w == _send_command(kCommandRequestBlocksLearned, <<>>)
        IN  /\ g.done
            /\ h.done
            /\ FinishFetch(Call("request_blocks_learned", 0, <<>>), resp, h.ret, h, <<w>>,
                           <<g.response>> \o h.reads, cap)

request_blocks_learned == request_blocks_learned_from(SessionFetchResponses, MaxPending)

request_arrows_learned_from(R, cap) ==
    \E resp \in R :
        \E g \in {_get_response(bus \o Concat(resp))} :
        \E h \in {_handle_response_arrows(g.response, Drop(bus \o Concat(resp), g.consumed),
                                           blocks, arrows, nLearned)} :
        LET w == _send_command(kCommandRequestArrowsLearned, <<>>)
        IN  /\ g.done
            /\ h.done
            /\ FinishFetch(Call("request_arrows_learned", 0, <<>>), resp, h.ret, h, <<w>>,
                           <<g.response>> \o h.reads, cap)

request_arrows_learned == request_arrows_learned_from(SessionFetchResponses, MaxPending)

request_by_id_with(I, R, cap) ==
    \E id \in I, resp \in R :
        \E g \in {_get_response(bus \o Concat(resp))} :
        \E h \in {_handle_response_mixed(g.response, Drop(bus \o Concat(resp), g.consumed),
                                           blocks, arrows, nLearned)} :
        LET w == _send_command(kCommandRequestById, <<LowByte(id), HighByte(id)>>)
        IN  /\ g.done
            /\ h.done
            /\ FinishFetch(Call("request_by_id", id, <<>>), resp, Discard(h.ret), h, <<w>>,
                           <<g.response>> \o h.reads, cap)

request_by_id_from(R, cap) == request_by_id_with(IdSamples, R, cap)

request_by_id == request_by_id_from(SessionFetchResponses, MaxPending)

request_blocks_by_id_with(I, R, cap) ==
    \E id \in I, resp \in R :
        \E g \in {_get_response(bus \o Concat(resp))} :
        \E h \in {_handle_response_blocks(g.response, Drop(bus \o Concat(resp), g.consumed),
                                           blocks, arrows, nLearned)} :
        LET w == _send_command(kCommandRequestBlocksById, <<LowByte(id), HighByte(id)>>)
        IN  /\ g.done
            /\ h.done
            /\ FinishFetch(Call("request_blocks_by_id", id, <<>>), resp, Discard(h.ret), h, <<w>>,
                           <<g.response>> \o h.reads, cap)

request_blocks_by_id_from(R, cap) == request_blocks_by_id_with(IdSamples, R, cap)

request_blocks_by_id == request_blocks_by_id_from(SessionFetchResponses, MaxPending)

request_arrows_by_id_with(I, R, cap) ==
    \E id \in I, resp \in R :
        \E g \in {_get_response(bus \o Concat(resp))} :
        \E h \in {_handle_response_arrows(g.response, Drop(bus \o Concat(resp), g.consumed),
                                           blocks, arrows, nLearned)} :
        LET w == _send_command(kCommandRequestArrowsById, <<LowByte(id), HighByte(id)>>)
        IN  /\ g.done
            /\ h.done
            /\ FinishFetch(Call("request_arrows_by_id", id, <<>>), resp, Discard(h.ret), h, <<w>>,
                           <<g.response>> \o h.reads, cap)

request_arrows_by_id_from(R, cap) == request_arrows_by_id_with(IdSamples, R, cap)

request_arrows_by_id == request_arrows_by_id_from(SessionFetchResponses, MaxPending)

(***************************************************************************)
(* Status commands.                                                        *)
(***************************************************************************)
request_knock_from(R) ==
    \E resp \in R :
        LET w == _send_command(kCommandRequestKnock, <<>>)
            g == _get_response(bus \o Concat(resp))
        IN  /\ g.done
            /\ Finish(Call("request_knock", 0, <<>>), resp,
                      Bool(g.response.valid /\ g.response.command = kCommandReturnOk),
                      blocks, arrows, nLearned, idToName, <<w>>, <<g.response>>,
                      Drop(bus \o Concat(resp), g.consumed))

request_knock == request_knock_from(AckStatusResponses)

\* what self._i2c.isDeviceConnected may answer; with self._i2c = None the
\* call raises, and is recorded as the probe that found nothing
Probes == IF _i2c = "None" THEN {FALSE} ELSE BOOLEAN

\* mutant: the knock is sent whatever the presence probe says
is_connected_noprobe(R) ==
    \E present \in Probes, resp \in R :
        LET w == _send_command(kCommandRequestKnock, <<>>)
            g == _get_response(bus \o Concat(resp))
        IN  /\ g.done
            /\ Finish(Call("is_connected", IF present THEN 1 ELSE 0, <<>>), resp,
                      Bool(present /\ g.response.valid
                           /\ g.response.command = kCommandReturnOk),
                      blocks, arrows, nLearned, idToName, <<w>>,
                      <<g.response>>, Drop(bus \o Concat(resp), g.consumed))

\* is_connected: the presence probe of the bus, then the knock; the call
\* is recorded with id 1 when the probe finds the device and 0 when not
is_connected_from(R) ==
    \E present \in Probes :
        IF ~present
        THEN Finish(Call("is_connected", 0, <<>>), <<>>, "False", blocks, arrows, nLearned,
                    idToName, <<>>, <<>>, bus)
        ELSE \E resp \in R :
                LET w == _send_command(kCommandRequestKnock, <<>>)
                    g == _get_response(bus \o Concat(resp))
                IN  /\ g.done
                    /\ Finish(Call("is_connected", 1, <<>>), resp,
                              Bool(g.response.valid
                                   /\ g.response.command = kCommandReturnOk),
                              blocks, arrows, nLearned, idToName, <<w>>,
                              <<g.response>>, Drop(bus \o Concat(resp), g.consumed))

is_connected == is_connected_from(AckStatusResponses)

\* mutant: the membership test looks at the low byte of the code only
AlgorithmRejected_lowbyte(algorithm) == LowByte(algorithm) \notin Algorithms

\* if algorithm not in [the seven kAlgorithm constants]: return False
AlgorithmRejected(algorithm) == algorithm \notin Algorithms

\* request_algorithm, entered under its own name or through set_algorithm
request_algorithm_from(name, R) ==
    \E algorithm \in AlgorithmInputs :
        IF AlgorithmRejected(algorithm)
        THEN Complete(Call(name, algorithm, <<>>), <<>>, "False", blocks, arrows, nLearned,
                      idToName, <<>>, <<>>, bus)
        ELSE \E resp \in R :
                LET w == _send_command(kCommandRequestAlgorithm,
                                       <<LowByte(algorithm), HighByte(algorithm)>>)
                    g == _get_response(bus \o Concat(resp))
                IN  /\ g.done
                    /\ Finish(Call(name, algorithm, <<>>), resp,
                              Bool(g.response.valid
                                   /\ g.response.command = kCommandReturnOk),
                              blocks, arrows, nLearned, idToName, <<w>>,
                              <<g.response>>, Drop(bus \o Concat(resp), g.consumed))

request_algorithm_as(name) == request_algorithm_from(name, AckStatusResponses)

request_algorithm == request_algorithm_as("request_algorithm")

set_algorithm == request_algorithm_as("set_algorithm")

\* mutant: the reply is used without looking at its valid flag
IsProResult_unchecked(response) ==
    IF response.command # kCommandReturnIsPro THEN "False"
    ELSE IF Len(response.data) < 1 THEN "IndexError"
    ELSE Bool(response.data[1] = 1)

\* the result of request_is_pro for the response it read: data[0] is
\* indexed without a length test
IsProResult(response) ==
    IF ~response.valid \/ response.command # kCommandReturnIsPro THEN "False"
    ELSE IF Len(response.data) < 1 THEN "IndexError"
    ELSE Bool(response.data[1] = 1)

request_is_pro_from(R) ==
    \E resp \in R :
        LET w == _send_command(kCommandRequestIsPro, <<>>)
            g == _get_response(bus \o Concat(resp))
        IN  /\ g.done
            /\ Finish(Call("request_is_pro", 0, <<>>), resp, IsProResult(g.response),
                      blocks, arrows, nLearned, idToName, <<w>>, <<g.response>>,
                      Drop(bus \o Concat(resp), g.consumed))

request_is_pro == request_is_pro_from(IsProResponses)

(***************************************************************************)
(* Naming, learning, forgetting: commands whose reply is not read.         *)
(***************************************************************************)
\* data = [id, len(name) + 1] + [ord(c) for c in name] + [0]
CustomNamesData(id, name) == <<id, Len(name) + 1>> \o name \o <<0>>

\* mutant: naming an id drops the names of the other ids
NameRecorded_only(m, id, name, resp) == DictSet(EmptyDict, id, name)

\* mutant: the association is recorded only when the device has answered
NameRecorded_acked(m, id, name, resp) ==
    IF resp = <<>> THEN m ELSE DictSet(m, id, name)

\* self.idToName[id] = name, whatever the device delivers
NameRecorded(m, id, name, resp) == DictSet(m, id, name)

\* request_custom_names(id, name), entered as caller
request_custom_names_as(caller, id, name) ==
    \E resp \in AckResponses :
        Finish(Call(caller, id, name), resp, "None", blocks, arrows, nLearned,
               NameRecorded(idToName, id, name, resp),
               <<_send_command(kCommandRequestCustomNames, CustomNamesData(id, name))>>,
               <<>>, bus \o Concat(resp))

request_custom_names_with(I, N) ==
    \E id \in I, name \in N :
        request_custom_names_as("request_custom_names", id, name)

request_custom_names == request_custom_names_with(NameIds, NameSamples)

\* name_last(name): request_custom_names(self.nLearned, name)
name_last ==
    IF "nLearned" \in unset
    THEN \E name \in NameSamples : Raised(Call("name_last", 0, name), nLearned, idToName, unset)
    ELSE \E name \in NameSamples : request_custom_names_as("name_last", nLearned, name)

\* get_name_for_id(id): found is FALSE for Python's None; the read of
\* self.idToName raises AttributeError as long as it is not assigned
get_name_for_id(id) ==
    IF "idToName" \in unset
    THEN [found |-> FALSE, name |-> <<>>, raised |-> TRUE]
    ELSE IF id \notin DOMAIN idToName
    THEN [found |-> FALSE, name |-> <<>>, raised |-> FALSE]
    ELSE [found |-> TRUE, name |-> idToName[id], raised |-> FALSE]

\* mutant: forget clears the counter and keeps the names
ForgetNames_keep(m) == m

\* self.idToName = {}
ForgetNames(m) == EmptyDict

\* request_forget, entered under its own name or through forget
request_forget_as(name) ==
    IF _i2c = "None"
    THEN Raised(Call(name, 0, <<>>), 0, ForgetNames(idToName),
                unset \ {"nLearned", "idToName"})
    ELSE \E resp \in AckResponses :
            Complete(Call(name, 0, <<>>), resp, "None", blocks, arrows, 0,
                     ForgetNames(idToName),
                     <<_send_command(kCommandRequestForget, <<>>)>>, <<>>,
                     bus \o Concat(resp))

request_forget == request_forget_as("request_forget")

forget == request_forget_as("forget")

\* request_learn(id), entered as caller with the counter value n to keep
request_learn_as(caller, id, n) ==
    IF _i2c = "None"
    THEN Raised(Call(caller, id, <<>>), n, idToName, unset)
    ELSE \E resp \in AckResponses :
            Complete(Call(caller, id, <<>>), resp, "None", blocks, arrows, n, idToName,
                     <<_send_command(kCommandRequestLearn, <<LowByte(id), HighByte(id)>>)>>,
                     <<>>, bus \o Concat(resp))

\* the read of self.nLearned by caller raises: the counter is not assigned
CounterUnset(caller) ==
    /\ "nLearned" \in unset
    /\ Raised(Call(caller, 0, <<>>), nLearned, idToName, unset)

request_learn_with(I) == \E id \in I : request_learn_as("request_learn", id, nLearned)

request_learn == request_learn_with(IdSamples)

\* mutant: the learn command is sent before the counter is increased
learn_new_sendfirst(cap) ==
    \/ CounterUnset("learn_new")
    \/ /\ "nLearned" \notin unset
       /\ nLearned < cap
       /\ request_learn_as("learn_new", nLearned, nLearned + 1)

\* self.nLearned += 1; self.request_learn(self.nLearned), while the counter
\* is below cap
learn_new_below(cap) ==
    \/ CounterUnset("learn_new")
    \/ /\ "nLearned" \notin unset
       /\ nLearned < cap
       /\ request_learn_as("learn_new", nLearned + 1, nLearned + 1)

learn_new == learn_new_below(MaxLearned)

learn_same ==
    \/ CounterUnset("learn_same")
    \/ /\ "nLearned" \notin unset
       /\ request_learn_as("learn_same", nLearned, nLearned)

(***************************************************************************)
(* Commands whose reply the driver does not read: files, overlay text.     *)
(***************************************************************************)
\* an operation that sends one command and returns r
SendOnly(o, command, data, r) ==
    \E resp \in AckResponses :
        Finish(o, resp, r, blocks, arrows, nLearned, idToName,
               <<_send_command(command, data)>>, <<>>, bus \o Concat(resp))

request_photo == SendOnly(Call("request_photo", 0, <<>>), kCommandRequestPhoto, <<>>, "None")

request_save_screenshot ==
    SendOnly(Call("request_save_screenshot", 0, <<>>), kCommandRequestSaveScreenshot,
             <<>>, "None")

\* file numbers passed to the knowledge-file commands
FileSamples == {0, 513}

request_send_knowledges_with(I) ==
    \E fileNum \in I :
        SendOnly(Call("request_send_knowledges", fileNum, <<>>),
                 kCommandRequestSendKnowledges, <<LowByte(fileNum), HighByte(fileNum)>>,
                 "None")

request_send_knowledges == request_send_knowledges_with(FileSamples)

request_receive_knowledges_with(I) ==
    \E fileNum \in I :
        SendOnly(Call("request_receive_knowledges", fileNum, <<>>),
                 kCommandRequestReceiveKnowledges,
                 <<LowByte(fileNum), HighByte(fileNum)>>, "None")

request_receive_knowledges == request_receive_knowledges_with(FileSamples)

\* the longest text request_custom_text accepts
kMaxTextLen == 20

\* a text of n characters, as the sequence of its code points ("AAA...")
TextOfLen(n) == [i \in 1..n |-> 65]

\* texts and positions passed to request_custom_text
TextSamples == {TextOfLen(0), <<72, 105>>, TextOfLen(kMaxTextLen), TextOfLen(kMaxTextLen + 1)}
XSamples == {0, 255, 256, 511}
YSamples == {0, 30}

\* mutant: the extended x is reduced modulo 256
CustomTextData_mod256(text, x, y) ==
    (IF x > 255 THEN <<Len(text), 255, x % 256, y>> ELSE <<Len(text), 0, x, y>>) \o text

\* the payload of the custom-text command
CustomTextData(text, x, y) ==
    (IF x > 255 THEN <<Len(text), 255, x % 255, y>> ELSE <<Len(text), 0, x, y>>) \o text

\* the call request_custom_text(text, x, y)
CallText(name, text, x, y) == [id |-> x, name |-> name, str |-> text, y |-> y]

\* mutant: a text of exactly kMaxTextLen characters is rejected too
TextRejected_atlimit(text) == Len(text) >= kMaxTextLen

\* if len(text) > 20: return False
TextRejected(text) == Len(text) > kMaxTextLen

\* request_custom_text(text, x, y), entered as caller, which returns
\* rejected when the text is too long and sent otherwise
request_custom_text_as(caller, text, x, y, rejected, sent) ==
    IF TextRejected(text)
    THEN Complete(CallText(caller, text, x, y), <<>>, rejected, blocks, arrows, nLearned,
                  idToName, <<>>, <<>>, bus)
    ELSE SendOnly(CallText(caller, text, x, y), kCommandRequestCustomText,
                  CustomTextData(text, x, y), sent)

request_custom_text_with(T, X, Y) ==
    \E text \in T, x \in X, y \in Y :
        request_custom_text_as("request_custom_text", text, x, y, "False", "True")

\* write_to_screen drops request_custom_text's result
write_to_screen_with(T, X, Y) ==
    \E text \in T, x \in X, y \in Y :
        request_custom_text_as("write_to_screen", text, x, y, "None", "None")

request_clear_text ==
    SendOnly(Call("request_clear_text", 0, <<>>), kCommandRequestClearText, <<>>, "None")

clear_screen ==
    SendOnly(Call("clear_screen", 0, <<>>), kCommandRequestClearText, <<>>, "None")

(***************************************************************************)
(* Operations built on the fetches and on the knock.                       *)
(***************************************************************************)
\* result of an operation that returns the list named by field
Returned(r, field) == IF r = "IndexError" THEN "IndexError" ELSE field

\* get_objects_of_interest: request_blocks, then return self.blocks
get_objects_of_interest_from(R, cap) ==
    \E resp \in R :
        \E g \in {_get_response(bus \o Concat(resp))} :
        \E h \in {_handle_response_blocks(g.response, Drop(bus \o Concat(resp), g.consumed),
                                           blocks, arrows, nLearned)} :
        LET w == _send_command(kCommandRequestBlocks, <<>>)
        IN  /\ g.done
            /\ h.done
            /\ FinishFetch(Call("get_objects_of_interest", 0, <<>>), resp,
                           Returned(h.ret, "blocks"), h, <<w>>,
                           <<g.response>> \o h.reads, cap)

\* get_lines_of_interest: request_arrows, then return self.arrows
get_lines_of_interest_from(R, cap) ==
    \E resp \in R :
        \E g \in {_get_response(bus \o Concat(resp))} :
        \E h \in {_handle_response_arrows(g.response, Drop(bus \o Concat(resp), g.consumed),
                                           blocks, arrows, nLearned)} :
        LET w == _send_command(kCommandRequestArrows, <<>>)
        IN  /\ g.done
            /\ h.done
            /\ FinishFetch(Call("get_lines_of_interest", 0, <<>>), resp,
                           Returned(h.ret, "arrows"), h, <<w>>,
                           <<g.response>> \o h.reads, cap)

\* the frames of several answers, in order
RECURSIVE Flatten(_)
Flatten(rounds) ==
    IF rounds = <<>> THEN <<>> ELSE Head(rounds) \o Flatten(Tail(rounds))

\* what the device may deliver in answer to one request of a wait_for_* loop
WaitResponses ==
    { <<Envelope(0, 0)>>, <<BusyPkt>>, <<Envelope(1, 1), BlockPkt1>>,
      <<Envelope(1, 1), ArrowPkt1>>, <<Envelope(1, 1), OkPkt>> }

WaitRounds == UNION { [1..k -> WaitResponses] : k \in 1..MaxWaitRounds }

\* the loop of wait_for_objects_of_interest (mode "blocks") and of
\* wait_for_lines_of_interest (mode "arrows"): request k is answered by
\* rounds[k]; sent counts the requests written; done is FALSE when the loop
\* has not ended with the last answer given
RECURSIVE WaitLoop(_, _, _, _, _, _, _, _)
WaitLoop(mode, rounds, k, stream, b, a, nl, rd) ==
    IF k > Len(rounds)
    THEN [ret |-> "None", done |-> FALSE, blocks |-> b, arrows |-> a, nLearned |-> nl,
          rest |-> stream, reads |-> rd, sent |-> k - 1]
    ELSE LET s == stream \o Concat(rounds[k])
             g == _get_response(s)
             h == IF mode = "blocks"
                  THEN _handle_response_blocks(g.response, Drop(s, g.consumed), b, a, nl)
                  ELSE _handle_response_arrows(g.response, Drop(s, g.consumed), b, a, nl)
             found == IF mode = "blocks" THEN h.blocks ELSE h.arrows
             out(r, d) == [ret |-> r, done |-> d, blocks |-> h.blocks,
                           arrows |-> h.arrows, nLearned |-> h.nLearned,
                           rest |-> h.rest, reads |-> rd \o <<g.response>> \o h.reads,
                           sent |-> k]
         IN  IF ~g.done \/ ~h.done THEN out("None", FALSE)
             ELSE IF h.ret = "IndexError" THEN out("IndexError", TRUE)
             ELSE IF Len(found) > 0 THEN out("None", TRUE)
             ELSE WaitLoop(mode, rounds, k + 1, h.rest, h.blocks, h.arrows, h.nLearned,
                           rd \o <<g.response>> \o h.reads)

wait_for_as(name, mode, command, cap) ==
    \E rounds \in WaitRounds :
        \E h \in {WaitLoop(mode, rounds, 1, bus, blocks, arrows, nLearned, <<>>)} :
            /\ h.done
            /\ h.sent = Len(rounds)
            /\ FinishFetch(Call(name, 0, <<>>), Flatten(rounds), h.ret, h,
                           [i \in 1..h.sent |-> _send_command(command, <<>>)],
                           h.reads, cap)

wait_for_objects_of_interest ==
    wait_for_as("wait_for_objects_of_interest", "blocks", kCommandRequestBlocks, MaxPending)

wait_for_lines_of_interest ==
    wait_for_as("wait_for_lines_of_interest", "arrows", kCommandRequestArrows, MaxPending)

\* begin that fetches whatever the knock answered
begin_from_anyway(RK, RF, cap) ==
    \E present \in Probes :
        IF ~present
        THEN Finish(Call("begin", 0, <<>>), <<>>, "False", blocks, arrows, nLearned,
                    idToName, <<>>, <<>>, bus)
        ELSE \E knock \in RK :
             \E k \in {_get_response(bus \o Concat(knock))} :
             \E resp \in RF :
             \E g \in {_get_response(Drop(bus \o Concat(knock), k.consumed)
                                     \o Concat(resp))} :
             \E h \in {_handle_response_mixed(
                           g.response,
                           Drop(Drop(bus \o Concat(knock), k.consumed)
                                \o Concat(resp), g.consumed),
                           blocks, arrows, nLearned)} :
                /\ k.done
                /\ g.done
                /\ h.done
                /\ FinishFetch(Call("begin", 1, <<>>), knock \o resp, h.ret, h,
                               <<_send_command(kCommandRequestKnock, <<>>),
                                 _send_command(kCommandRequest, <<>>)>>,
                               <<k.response, g.response>> \o h.reads, cap)

\* begin: is_connected, then request
begin_from(RK, RF, cap) ==
    \E present \in Probes :
        IF ~present
        THEN Finish(Call("begin", 0, <<>>), <<>>, "False", blocks, arrows, nLearned,
                    idToName, <<>>, <<>>, bus)
        ELSE \E knock \in RK :
             \E k \in {_get_response(bus \o Concat(knock))} :
                /\ k.done
                /\ IF ~(k.response.valid /\ k.response.command = kCommandReturnOk)
                   THEN Finish(Call("begin", 1, <<>>), knock, "False", blocks, arrows,
                               nLearned, idToName,
                               <<_send_command(kCommandRequestKnock, <<>>)>>,
                               <<k.response>>, Drop(bus \o Concat(knock), k.consumed))
                   ELSE \E resp \in RF :
                        \E g \in {_get_response(Drop(bus \o Concat(knock), k.consumed)
                                                \o Concat(resp))} :
                        \E h \in {_handle_response_mixed(
                                      g.response,
                                      Drop(Drop(bus \o Concat(knock), k.consumed)
                                           \o Concat(resp), g.consumed),
                                      blocks, arrows, nLearned)} :
                            /\ g.done
                            /\ h.done
                            /\ FinishFetch(Call("begin", 1, <<>>), knock \o resp, h.ret, h,
                                           <<_send_command(kCommandRequestKnock, <<>>),
                                             _send_command(kCommandRequest, <<>>)>>,
                                           <<k.response, g.response>> \o h.reads, cap)

(***************************************************************************)
(* The session specification: every operation, from the constructed state. *)
(***************************************************************************)
Init == DriverInit /\ CodecIdle /\ RobotIdle

Next ==
    \/ request
    \/ request_blocks
    \/ request_arrows
    \/ request_learned
    \/ request_blocks_learned
    \/ request_arrows_learned
    \/ request_by_id
    \/ request_blocks_by_id
    \/ request_arrows_by_id
    \/ request_knock
    \/ request_algorithm
    \/ set_algorithm
    \/ request_is_pro
    \/ request_custom_names
    \/ name_last
    \/ request_forget
    \/ forget
    \/ request_learn
    \/ learn_new
    \/ learn_same

Spec == Init /\ [][Next]_vars

(***************************************************************************)
(* The aggregation specification: the fetches alone, against every answer  *)
(* of FetchResponses.                                                      *)
(***************************************************************************)
fetch_mixed == request_from(FetchResponses, MaxFetchPending)

fetch_learned == request_learned_from(FetchResponses, MaxFetchPending)

fetch_blocks == request_blocks_from(FetchResponses, MaxFetchPending)

fetch_arrows == request_arrows_from(FetchResponses, MaxFetchPending)

NextFetch ==
    \/ fetch_mixed
    \/ fetch_learned
    \/ fetch_blocks
    \/ fetch_arrows
    \/ request_by_id_from(FetchResponses, MaxFetchPending)
    \/ request_blocks_by_id_from(FetchResponses, MaxFetchPending)
    \/ request_arrows_by_id_from(FetchResponses, MaxFetchPending)

SpecFetch == Init /\ [][NextFetch]_vars

(***************************************************************************)
(* Snapshot specification: the single-mode fetches among mixed fetches,    *)
(* naming calls and begin, against the answers of FetchResponses of at     *)
(* most two frames, so that both snapshots and the name mapping hold       *)
(* something when a fetch or a begin runs.                                 *)
(***************************************************************************)
NextSnapshot ==
    \/ request_blocks_from({r \in FetchResponses : Len(r) <= 2}, MaxFetchPending)
    \/ request_blocks_learned_from({r \in FetchResponses : Len(r) <= 2}, MaxFetchPending)
    \/ request_blocks_by_id_from({r \in FetchResponses : Len(r) <= 2}, MaxFetchPending)
    \/ request_arrows_from({r \in FetchResponses : Len(r) <= 2}, MaxFetchPending)
    \/ request_arrows_learned_from({r \in FetchResponses : Len(r) <= 2}, MaxFetchPending)
    \/ request_arrows_by_id_from({r \in FetchResponses : Len(r) <= 2}, MaxFetchPending)
    \/ request_from({r \in FetchResponses : Len(r) <= 2}, MaxFetchPending)
    \/ request_custom_names_with(NameIds, {<<88>>})
    \/ begin_from({<<OkPkt>>, <<BusyPkt>>}, {r \in FetchResponses : Len(r) <= 2},
                  MaxFetchPending)

SpecSnapshot == Init /\ [][NextSnapshot]_vars

(***************************************************************************)
(* Learning specification: learn_new up to a count of MaxLearned + 2,      *)
(* among the operations that set the learned-id count (forget, fetches)    *)
(* and operations that do not (learn_same, request_learn, request_knock).  *)
(***************************************************************************)
NextLearn ==
    \/ learn_new_below(MaxLearned + 2)
    \/ learn_same
    \/ request_learn_with({0, 258})
    \/ request_forget
    \/ forget
    \/ request_from(SessionFetchResponses \cup {<<Envelope(1, 2), OkPkt>>, <<BusyPkt>>},
                    MaxFetchPending)
    \/ request_blocks_by_id_from(SessionFetchResponses, MaxFetchPending)
    \/ request_knock

SpecLearn == Init /\ [][NextLearn]_vars

(***************************************************************************)
(* Command specification: the commands that carry an id, a file number or  *)
(* a text, over the whole range of their arguments.                        *)
(***************************************************************************)
\* ids and file numbers: the ends of the 16-bit range and of each byte
WideIds == {0, 1, 255, 256, 258, 65535}

NextCommand ==
    \/ request_by_id_with(WideIds, SessionFetchResponses, MaxPending)
    \/ request_blocks_by_id_with(WideIds, SessionFetchResponses, MaxPending)
    \/ request_arrows_by_id_with(WideIds, SessionFetchResponses, MaxPending)
    \/ request_learn_with(WideIds)
    \/ request_send_knowledges_with(WideIds)
    \/ request_receive_knowledges_with(WideIds)
    \/ request_custom_text_with(TextSamples, XSamples, YSamples)
    \/ write_to_screen_with(TextSamples, XSamples, YSamples)
    \/ request_custom_names_with({1, 256}, {<<88>>})
    \/ request_clear_text
    \/ clear_screen

SpecCommand == Init /\ [][NextCommand]_vars

(***************************************************************************)
(* Client specification: the operations that hand the snapshot lists to    *)
(* the caller, among mixed fetches, with the device's answer drawn from     *)
(* FetchResponses.                                                         *)
(***************************************************************************)
NextClient ==
    \/ get_objects_of_interest_from(FetchResponses, MaxFetchPending)
    \/ get_lines_of_interest_from(FetchResponses, MaxFetchPending)
    \/ fetch_mixed

SpecClient == Init /\ [][NextClient]_vars

(***************************************************************************)
(* Driver specification: every public operation of the driver, the ones of *)
(* the session specification and the ones built on them, with few inputs   *)
(* for each.                                                               *)
(***************************************************************************)
begin == begin_from({<<OkPkt>>, <<BusyPkt>>}, SessionFetchResponses, MaxPending)

get_objects_of_interest == get_objects_of_interest_from(SessionFetchResponses, MaxPending)

get_lines_of_interest == get_lines_of_interest_from(SessionFetchResponses, MaxPending)

request_custom_text ==
    request_custom_text_with({<<72, 105>>, TextOfLen(kMaxTextLen + 1)}, {0}, {0})

write_to_screen == write_to_screen_with({<<72, 105>>}, {0}, {0})

NextDriver ==
    \/ Next
    \/ wait_for_objects_of_interest
    \/ wait_for_lines_of_interest
    \/ get_objects_of_interest
    \/ get_lines_of_interest
    \/ is_connected
    \/ begin
    \/ request_photo
    \/ request_save_screenshot
    \/ request_send_knowledges
    \/ request_receive_knowledges
    \/ request_custom_text
    \/ write_to_screen
    \/ request_clear_text
    \/ clear_screen

SpecDriver == Init /\ [][NextDriver]_vars

(***************************************************************************)
(* Status specification: the status commands and is_connected, with the    *)
(* device's answer drawn from StatusResponses.                             *)
(***************************************************************************)
NextStatus ==
    \/ request_knock_from(StatusResponses)
    \/ request_algorithm_from("request_algorithm", StatusResponses)
    \/ request_algorithm_from("set_algorithm", StatusResponses)
    \/ request_is_pro_from(StatusResponses)
    \/ is_connected_from(StatusResponses)

SpecStatus == Init /\ [][NextStatus]_vars

(***************************************************************************)
(* The codec specification: _send_command, _Response and _get_response as  *)
(* pure functions of bounded inputs.  A run builds one packet, then either *)
(* decodes it, or overwrites one byte before the checksum and decodes the  *)
(* result, or reads it back through _get_response behind garbage bytes, or *)
(* reads it and the packet behind it through successive calls.             *)
(***************************************************************************)
\* byte values used for commands, payload bytes, garbage and trailing bytes
ByteSamples == {0, 85, 255}
CommandSamples == {0, 44, 255}
GarbageSamples == {0, 84, 170, 255}

\* all sequences over S of length at most n
SeqsUpTo(S, n) == UNION { [1..k -> S] : k \in 0..n }

CodecInit ==
    /\ DriverLoaded
    /\ RobotIdle
    /\ cCommand \in CommandSamples
    /\ cData \in SeqsUpTo(ByteSamples, MaxPayloadLen)
    /\ cWire = <<>>
    /\ cGarbage = <<>>
    /\ cTail = <<>>
    /\ cResponse = _Response(<<0, 0, 0, 0, 0, 0>>)
    /\ cConsumed = 0
    /\ cStage = "input"

\* _send_command(cCommand, cData): the bytes written on the bus
SendCommand ==
    /\ cStage = "input"
    /\ cWire' = _send_command(cCommand, cData)
    /\ cStage' = "sent"
    /\ UNCHANGED <<cCommand, cData, cGarbage, cTail, cResponse, cConsumed>>
    /\ UNCHANGED driver
    /\ UNCHANGED robot

\* one byte other than the last is replaced by a different byte value
CorruptByte ==
    /\ cStage = "sent"
    /\ \E i \in 1..(Len(cWire) - 1), v \in 0..kByteMask :
          /\ v # cWire[i]
          /\ cWire' = [cWire EXCEPT ![i] = v]
    /\ cStage' = "corrupted"
    /\ UNCHANGED <<cCommand, cData, cGarbage, cTail, cResponse, cConsumed>>
    /\ UNCHANGED driver
    /\ UNCHANGED robot

\* _Response(cWire)
Decode ==
    /\ cStage \in {"sent", "corrupted"}
    /\ cResponse' = _Response(cWire)
    /\ cStage' = IF cStage = "sent" THEN "decoded" ELSE "decodedCorrupted"
    /\ UNCHANGED <<cCommand, cData, cWire, cGarbage, cTail, cConsumed>>
    /\ UNCHANGED driver
    /\ UNCHANGED robot

\* _get_response() on a bus that delivers garbage, the packet, then more bytes
ReadBack ==
    /\ cStage = "sent"
    /\ \E garbage \in SeqsUpTo(GarbageSamples, MaxGarbage), tail \in SeqsUpTo(ByteSamples, 1) :
       \E g \in {_get_response(garbage \o cWire \o tail)} :
          /\ g.done
          /\ cGarbage' = garbage
          /\ cTail' = tail
          /\ cResponse' = g.response
          /\ cConsumed' = g.consumed
    /\ cStage' = "framed"
    /\ UNCHANGED <<cCommand, cData, cWire>>
    /\ UNCHANGED driver
    /\ UNCHANGED robot

\* one or two successive _get_response() calls on a bus that delivers the
\* packet, a second well-formed packet right behind it, then more bytes.
\* The packet is the one built, or the one built with its length byte
\* overwritten. cConsumed is what the first call took off the bus.
ReadSuccessive ==
    /\ cStage = "sent" \/ (cStage = "corrupted" /\ cWire[4] # Len(cData))
    /\ \E second \in {_send_command(kCommandReturnOk, <<>>),
                       _send_command(kHeader1, <<kHeader1, 0>>)},
          tail \in SeqsUpTo(ByteSamples, 1), calls \in 1..2 :
       \E g1 \in {_get_response(cWire \o second \o tail)} :
       \E g2 \in {_get_response(Drop(cWire \o second \o tail, g1.consumed))} :
          /\ g1.done
          /\ calls = 2 => g2.done
          /\ answer' = <<cWire, second>>
          /\ cTail' = tail
          /\ cConsumed' = g1.consumed
          /\ cResponse' = g1.response
          /\ reads' = IF calls = 2 THEN <<g1.response, g2.response>> ELSE <<g1.response>>
          /\ bus' = IF calls = 2
                    THEN Drop(cWire \o second \o tail, g1.consumed + g2.consumed)
                    ELSE Drop(cWire \o second \o tail, g1.consumed)
    /\ cStage' = "stream"
    /\ UNCHANGED <<cCommand, cData, cWire, cGarbage>>
    /\ UNCHANGED <<_i2c, unset, blocks, arrows, nLearned, idToName, stale, op, ret, written>>
    /\ UNCHANGED robot

NextCodec ==
    \/ SendCommand
    \/ CorruptByte
    \/ Decode
    \/ ReadBack
    \/ ReadSuccessive

SpecCodec == CodecInit /\ [][NextCodec]_vars

(***************************************************************************)
(* The synchronisation specification: _get_response step by step.  cWire   *)
(* is readBytes, cConsumed the number of read_byte calls made so far (it   *)
(* stops counting at MaxDiscard; the loop does not stop), cStage is "sync"  *)
(* while the call runs and "returned" once it has returned cResponse.  The *)
(* bus answers every read; which byte it delivers is its own choice.       *)
(***************************************************************************)
\* mutant: the loop also ends on the second header byte
SyncContinues_header2 == cWire[1] \notin {kHeader1, kHeader2}

\* readBytes[0] != 0x55, the condition of the while loop
SyncContinues == cWire[1] # kHeader1

\* readBytes[0] = read_byte()
SyncRead ==
    /\ cStage = "sync"
    /\ SyncContinues
    /\ \E v \in GarbageSamples \cup {kHeader1} : cWire' = <<v>>
    /\ cConsumed' = IF cConsumed < MaxDiscard THEN cConsumed + 1 ELSE MaxDiscard
    /\ UNCHANGED <<cCommand, cData, cGarbage, cTail, cResponse, cStage>>
    /\ UNCHANGED driver
    /\ UNCHANGED robot

\* past the loop: read_block of 4 bytes, read_block of readBytes[3] + 1 bytes
\* (a payload and either some byte or the checksum a sender would append),
\* return _Response(readBytes)
ReadFrame ==
    /\ cStage = "sync"
    /\ ~SyncContinues
    /\ \E dlen \in 0..MaxPayloadLen, command \in CommandSamples, last \in ByteSamples :
       \E data \in [1..dlen -> ByteSamples] :
       \E body \in {data \o <<last>>, Drop(_send_command(command, data), 5)} :
          /\ cWire' = cWire \o <<kHeader2, kProtocolAddress, dlen, command>> \o body
          /\ cResponse' = _Response(cWire \o <<kHeader2, kProtocolAddress, dlen, command>> \o body)
    /\ cStage' = "returned"
    /\ UNCHANGED <<cCommand, cData, cGarbage, cTail, cConsumed>>
    /\ UNCHANGED driver
    /\ UNCHANGED robot

NextSync ==
    \/ SyncRead
    \/ ReadFrame

\* readBytes = [0] on entry
SyncInit ==
    /\ DriverLoaded
    /\ RobotIdle
    /\ cCommand = 0
    /\ cData = <<>>
    /\ cWire = <<0>>
    /\ cGarbage = <<>>
    /\ cTail = <<>>
    /\ cResponse = _Response(<<0, 0, 0, 0, 0, 0>>)
    /\ cConsumed = 0
    /\ cStage = "sync"

\* the call keeps running as long as the bus answers its reads
SpecSync == SyncInit /\ [][NextSync]_vars /\ WF_vars(NextSync)

(***************************************************************************)
(* Decoding specification: the bus holds, before the first call, an info   *)
(* envelope and the records it declares, with every 16-bit field drawn     *)
(* from FieldSamples; one mixed fetch (request) decodes them.              *)
(***************************************************************************)
\* 16-bit field values: both bytes 0, low byte 255, high byte 1, both 255
FieldSamples == {0, 255, 256, 65535}

\* an envelope declaring no record, or one record and that record
DecodeStreams ==
    { DevicePacket(kCommandReturnInfo, InfoData(0, ids, frame)) :
        ids \in FieldSamples, frame \in FieldSamples }
    \cup
    { DevicePacket(kCommandReturnInfo, InfoData(1, ids, frame))
      \o DevicePacket(code, RecordData(a, b, c, d, id)) :
        ids \in {0, 65535}, frame \in {256, 65535},
        code \in {kCommandReturnBlock, kCommandReturnArrow},
        a \in FieldSamples, b \in FieldSamples, c \in FieldSamples,
        d \in FieldSamples, id \in FieldSamples }

DecodeInit ==
    /\ _i2c = "driver"
    /\ unset = {}
    /\ blocks = <<>>
    /\ arrows = <<>>
    /\ nLearned = 0
    /\ idToName = EmptyDict
    /\ bus \in DecodeStreams
    /\ stale = <<>>
    /\ answer = <<>>
    /\ op = NoOp
    /\ ret = "None"
    /\ written = <<>>
    /\ reads = <<>>
    /\ CodecIdle
    /\ RobotIdle

NextDecode == request_from({<<>>}, MaxFetchPending)

SpecDecode == DecodeInit /\ [][NextDecode]_vars

(***************************************************************************)
(* Python floats.  The scripts compute their normalised coordinates, means *)
(* and ratios in double precision, and a comparison against the edge of a  *)
(* band goes by the rounded values.  A float is kept as [m, e], the value  *)
(* m * 2^e with 2^52 <= m < 2^53, or Zero; m and every other long number   *)
(* is the tuple of its five digits to the base 2^14, lowest first.  The    *)
(* values of the scripts are finite, non-negative and normal.              *)
(***************************************************************************)
Digit == 2^14
Digits == 1..5

\* the element of a set of one: { F(v) : v \in {e} } is F of the value of e
The(S) == CHOOSE v \in S : TRUE

\* the long number of five digit values that may be negative or above the
\* base: carries and borrows go upwards, the top digit keeps the rest
Carried(t) ==
    LET a1 == t[1]
        a2 == t[2] + a1 \div Digit
        a3 == t[3] + a2 \div Digit
        a4 == t[4] + a3 \div Digit
        a5 == t[5] + a4 \div Digit
    IN  <<a1 % Digit, a2 % Digit, a3 % Digit, a4 % Digit, a5>>

Long(i) == Carried(<<i, 0, 0, 0, 0>>)
Plus(a, b) == Carried([i \in Digits |-> a[i] + b[i]])
\* a - b; its top digit is negative when a < b
Minus(a, b) == Carried([i \in Digits |-> a[i] - b[i]])
Below(a, b) == Minus(a, b)[5] < 0
\* a * k for 0 <= k <= 2^14
Times(a, k) == Carried([i \in Digits |-> a[i] * k])

\* a * 2^k
Left(a, k) ==
    Times([i \in Digits |-> IF i > k \div 14 THEN a[i - (k \div 14)] ELSE 0], 2^(k % 14))

\* a \div 2^k
Right(a, k) ==
    The({ [i \in Digits |-> s[i] \div 2^(k % 14) + (s[i + 1] % 2^(k % 14)) * 2^(14 - (k % 14))]
          : s \in {[i \in 1..6 |-> IF i + (k \div 14) <= 5 THEN a[i + (k \div 14)] ELSE 0]} })

\* the number of binary digits of a
Width(a) ==
    IF \A i \in Digits : a[i] = 0 THEN 0
    ELSE The({ 14 * (top - 1) + CHOOSE b \in 1..14 : 2^(b - 1) <= a[top] /\ a[top] < 2^b
               : top \in {i \in Digits : a[i] # 0 /\ \A j \in Digits : j > i => a[j] = 0} })

Zero == [m |-> <<0, 0, 0, 0, 0>>, e |-> 0]

\* the mantissa kept of 53 digits with exponent e, one added when `up`; a
\* carry out of the 53 digits halves it
RoundedUp(kept, up, e) ==
    IF ~up THEN [m |-> kept, e |-> e]
    ELSE The({ IF Width(p) > 53 THEN [m |-> Right(p, 1), e |-> e + 1]
               ELSE [m |-> p, e |-> e]
               : p \in {Plus(kept, <<1, 0, 0, 0, 0>>)} })

\* the float nearest to (n + f) * 2^e, ties to even, f being 0, or when
\* `more` some fraction below 1, which n then has at least 55 digits for
Rounded(n, more, e) ==
    The({ IF w = 0 THEN Zero
          ELSE IF w <= 53 THEN [m |-> Left(n, 53 - w), e |-> e - (53 - w)]
          ELSE The({ RoundedUp(kept,
                               rest > 2^(w - 54)
                                   \/ (rest = 2^(w - 54) /\ (more \/ kept[1] % 2 = 1)),
                               e + (w - 53))
                     : kept \in {Right(n, w - 53)},
                       rest \in {(n[1] + n[2] * Digit + (n[3] % 2) * Digit * Digit)
                                     % 2^(w - 53)} })
          : w \in {Width(n)} })

\* float(i) of an int 0 <= i < 2^31
FromInt(i) == Rounded(Long(i), FALSE, 0)

\* x + y for x.e >= y.e.  x is moved up by one digit of the base at most
\* and y down to it; what falls off y is a fraction
FAddTo(x, y) ==
    IF x.e - y.e <= 14
    THEN The({ Rounded(n, FALSE, y.e) : n \in {Plus(Left(x.m, x.e - y.e), y.m)} })
    ELSE The({ The({ Rounded(n, Left(s, x.e - y.e - 14) # y.m, x.e - 14)
                     : n \in {Plus(Left(x.m, 14), s)} })
               : s \in {Right(y.m, x.e - y.e - 14)} })

\* a + b
FAdd(a, b) ==
    IF a = Zero THEN b
    ELSE IF b = Zero THEN a
    ELSE IF a.e >= b.e THEN FAddTo(a, b)
    ELSE FAddTo(b, a)

\* a - b for a >= b
FSub(a, b) ==
    IF b = Zero THEN a
    ELSE IF a.e - b.e <= 14
    THEN The({ Rounded(n, FALSE, b.e) : n \in {Minus(Left(a.m, a.e - b.e), b.m)} })
    ELSE The({ The({ IF Left(s, a.e - b.e - 14) # b.m
                     THEN Rounded(Minus(n, <<1, 0, 0, 0, 0>>), TRUE, a.e - 14)
                     ELSE Rounded(n, FALSE, a.e - 14)
                     : n \in {Minus(Left(a.m, 14), s)} })
               : s \in {Right(b.m, a.e - b.e - 14)} })

\* the digit of n \div d estimated from the two leading digits of n, d[4]
\* being at least half the base: too large by two at most
Estimate(n, d) ==
    The({ IF q >= Digit THEN Digit - 1 ELSE q : q \in {(n[5] * Digit + n[4]) \div d[4]} })

\* one digit of a long division by d; r < d is the remainder so far
DivStep(r, d) ==
    The({ The({ The({ [q |-> q, r |-> Minus(n, Times(d, q))]
                      : q \in {p \in (IF q1 < 2 THEN 0 ELSE q1 - 2)..q1 :
                                  /\ ~Below(n, Times(d, p))
                                  /\ (p = q1 \/ Below(n, Times(d, p + 1)))} })
                : q1 \in {Estimate(n, d)} })
          : n \in {Left(r, 14)} })

\* k more digits of the long division by d after the digits qs, lowest
\* first, with the remainder r
RECURSIVE DivSteps(_, _, _, _)
DivSteps(qs, r, d, k) ==
    IF k = 0 THEN [q |-> qs, r |-> r]
    ELSE The({ DivSteps(<<s.q>> \o qs, s.r, d, k - 1) : s \in {DivStep(r, d)} })

\* a / b for b # 0: the quotient of the mantissas to 56 binary places by
\* long division, rounded with the remainder as the fraction
FDiv(a, b) ==
    IF a = Zero THEN Zero
    ELSE The({ The({ Rounded(s.q, s.r # <<0, 0, 0, 0, 0>>, a.e - b.e - 56)
                     : s \in {IF Below(n, d) THEN DivSteps(<<0>>, n, d, 4)
                              ELSE DivSteps(<<1>>, Minus(n, d), d, 4)} })
               : n \in {Left(a.m, 3)}, d \in {Left(b.m, 3)} })

\* a < b
FLess(a, b) ==
    IF b = Zero THEN FALSE
    ELSE IF a = Zero THEN TRUE
    ELSE a.e < b.e \/ (a.e = b.e /\ Below(a.m, b.m))

\* the float a decimal literal num/den stands for
Decimal(num, den) == FDiv(FromInt(num), FromInt(den))

RECURSIVE FSumFrom(_, _)
FSumFrom(acc, fs) ==
    IF fs = <<>> THEN acc
    ELSE The({ FSumFrom(s, Tail(fs)) : s \in {FAdd(acc, Head(fs))} })
\* sum(fs)
FSum(fs) == FSumFrom(Zero, fs)

(***************************************************************************)
(* ram_object.py: the script that looks for the basket, lines up on it     *)
(* and rams it.  One action is one pass of the `while True` loop of        *)
(* ram_object: the call of get_basket_block at its top, which fetches the  *)
(* blocks through get_objects_of_interest, and the branch of the state     *)
(* machine that runs.  Speeds are the arguments of drivetrain.set_speed;   *)
(* the decimal literals of the script are kept in hundredths and taken as  *)
(* floats where the script computes with them.                             *)
(***************************************************************************)
HUSKY_WIDTH == 320
BASKET_ID == 1
SEARCH_TURN_SPEED == 10
LINEUP_TURN_SPEED == 13
\* BASKET_X_TARGET = 0.4 and BASKET_X_DEADZONE = 0.02, in hundredths
BASKET_X_TARGET == 40
BASKET_X_DEADZONE == 2
\* `if align_counter >= 6`
kAlignFrames == 6
\* centered_run stops growing here
MaxCenteredRun == 7

\* a block record with the given x center, size and id
BlockAt(x, w, h, id) == DevicePacket(kCommandReturnBlock, RecordData(x, 120, w, h, id))

\* what the device may deliver in answer to the blocks request of one pass:
\* nothing seen, the basket left of, inside and right of the deadzone (121,
\* 122, 134 and 135 are the pixels next to its two edges), another id, two
\* baskets of different area, a busy answer, a refused record, and a short
\* envelope
RamResponses ==
    { <<Envelope(0, 1)>>,
      <<Envelope(1, 1), BlockAt(121, 40, 30, 1)>>,
      <<Envelope(1, 1), BlockAt(122, 40, 30, 1)>>,
      <<Envelope(1, 1), BlockAt(134, 40, 30, 1)>>,
      <<Envelope(1, 1), BlockAt(135, 40, 30, 1)>>,
      <<Envelope(1, 1), BlockAt(128, 40, 30, 2)>>,
      <<Envelope(2, 1), BlockAt(128, 10, 10, 1), BlockAt(300, 40, 30, 1)>>,
      <<BusyPkt>>,
      <<Envelope(1, 1), OkPkt>>,
      <<ShortEnvelope>> }

\* b.width * b.height
BlockArea(b) == b.width * b.height

\* get_basket_block on the list get_objects_of_interest returned: the block
\* with id BASKET_ID of the largest area, the first of them when several
\* have it, or None; `b.id` raises AttributeError on a None entry
get_basket_block(objects) ==
    IF \E i \in 1..Len(objects) : objects[i] = None
    THEN [raised |-> TRUE, block |-> None]
    ELSE LET c == {i \in 1..Len(objects) : objects[i].id = BASKET_ID}
         IN  IF c = {}
             THEN [raised |-> FALSE, block |-> None]
             ELSE [raised |-> FALSE,
                   block  |-> objects[CHOOSE i \in c : \A j \in c :
                                 \/ BlockArea(objects[j]) < BlockArea(objects[i])
                                 \/ /\ BlockArea(objects[j]) = BlockArea(objects[i])
                                    /\ i <= j]]

\* the float a literal of c hundredths stands for
Hundredths(c) == Decimal(c, 100)

\* xCenter / HUSKY_WIDTH
Normalised(xCenter) == FDiv(FromInt(xCenter), FromInt(HUSKY_WIDTH))

\* BASKET_X_TARGET - BASKET_X_DEADZONE and BASKET_X_TARGET + BASKET_X_DEADZONE
BasketLeftEdge == FSub(Hundredths(BASKET_X_TARGET), Hundredths(BASKET_X_DEADZONE))
BasketRightEdge == FAdd(Hundredths(BASKET_X_TARGET), Hundredths(BASKET_X_DEADZONE))

\* x_center < BASKET_X_TARGET - BASKET_X_DEADZONE, x_center being
\* xCenter / HUSKY_WIDTH
BasketLeft(b) == FLess(Normalised(b.xCenter), BasketLeftEdge)

\* x_center > BASKET_X_TARGET + BASKET_X_DEADZONE
BasketRight(b) == FLess(BasketRightEdge, Normalised(b.xCenter))

BasketCentered(b) == b # None /\ ~BasketLeft(b) /\ ~BasketRight(b)

\* drivetrain.set_speed(left_speed=l, right_speed=r)
set_speed(l, r) == left_speed' = l /\ right_speed' = r

\* the fields of track_object.py, which ram_object.py does not have
tracking == <<x_history, area_history, desired_area, seen_run,
              samples_taken, area_sum, valid_samples>>

\* what the device may deliver in answer to the knock of the connected
\* check a script makes when it is loaded: the OK, alone or with a busy
\* packet behind it
ConnectAnswers == { <<OkPkt>>, <<OkPkt, BusyPkt>> }

\* a script at its entry point: the driver was constructed with its I2C
\* driver and `my_husky.connected` was true, the script leaves otherwise;
\* the last operation is that is_connected, and what the device sent behind
\* the OK is unread
ScriptInit ==
    /\ _i2c = "driver"
    /\ unset = {}
    /\ blocks = <<>>
    /\ arrows = <<>>
    /\ nLearned = 0
    /\ idToName = EmptyDict
    /\ \E resp \in ConnectAnswers :
          /\ _get_response(Concat(resp)).done
          /\ _get_response(Concat(resp)).response.valid
          /\ _get_response(Concat(resp)).response.command = kCommandReturnOk
          /\ stale = <<>>
          /\ answer = resp
          /\ op = Call("is_connected", 1, <<>>)
          /\ ret = "True"
          /\ written = <<_send_command(kCommandRequestKnock, <<>>)>>
          /\ reads = <<_get_response(Concat(resp)).response>>
          /\ bus = Drop(Concat(resp), _get_response(Concat(resp)).consumed)
    /\ CodecIdle
    /\ RobotIdle

\* angles passed to encoder_turn
TurnDegrees == {-90, 0, 90}

\* encoder_turn(dt, degrees) up to its loop: nothing for 0 degrees, else
\* the wheels are set turning, right for a positive angle
encoder_turn ==
    /\ pc = "idle"
    /\ \E degrees \in TurnDegrees :
          IF degrees = 0
          THEN UNCHANGED <<pc, left_speed, right_speed>>
          ELSE /\ pc' = "turning"
               /\ IF degrees > 0
                  THEN set_speed(SEARCH_TURN_SPEED, -SEARCH_TURN_SPEED)
                  ELSE set_speed(-SEARCH_TURN_SPEED, SEARCH_TURN_SPEED)
    /\ UNCHANGED <<rams, current_state, align_counter, centered_run>>
    /\ UNCHANGED tracking
    /\ UNCHANGED driver
    /\ UNCHANGED codec

\* the loop of encoder_turn has seen a wheel reach the target position: the
\* wheels are stopped and the call returns
encoder_turn_done ==
    /\ pc = "turning"
    /\ pc' = "idle"
    /\ set_speed(0, 0)
    /\ UNCHANGED <<rams, current_state, align_counter, centered_run>>
    /\ UNCHANGED tracking
    /\ UNCHANGED driver
    /\ UNCHANGED codec

ram_object ==
    /\ pc = "idle"
    /\ pc' = "loop"
    /\ current_state' = 1
    /\ align_counter' = 0
    /\ set_speed(0, 0)
    /\ UNCHANGED <<rams, centered_run>>
    /\ UNCHANGED tracking
    /\ UNCHANGED driver
    /\ UNCHANGED codec

\* get_objects_of_interest of one pass of a script's loop: one blocks request
\* and an answer of R to it, decoded; what the fetch leaves unread is kept
\* within cap bytes
LoopFetches(R, cap) ==
    { f \in { [resp |-> resp,
               g    |-> _get_response(bus \o Concat(resp)),
               h    |-> _handle_response_blocks(
                            _get_response(bus \o Concat(resp)).response,
                            Drop(bus \o Concat(resp),
                                 _get_response(bus \o Concat(resp)).consumed),
                            blocks, arrows, nLearned)] : resp \in R } :
        f.g.done /\ f.h.done /\ Len(f.h.rest) <= cap }

\* the fetch succeeded; the scripts are not told: after a failed fetch
\* get_objects_of_interest returns the snapshot as it stands
Fresh(f) == f.h.ret = "True"

\* one pass of a script's loop, taken in the states `when` holds in: the
\* fetch f, then the script's selection on the list it returned; an
\* IndexError of the fetch or an exception of the selection (raised) leaves
\* the script, which catches neither; otherwise the pass goes on as
\* `branch` says
LoopPass(when, f, raised, branch) ==
    /\ when
    /\ stale' = bus
    /\ answer' = f.resp
    /\ op' = Call("get_objects_of_interest", 0, <<>>)
    /\ ret' = Returned(f.h.ret, "blocks")
    /\ blocks' = f.h.blocks
    /\ arrows' = f.h.arrows
    /\ nLearned' = f.h.nLearned
    /\ idToName' = idToName
    /\ written' = <<_send_command(kCommandRequestBlocks, <<>>)>>
    /\ reads' = <<f.g.response>> \o f.h.reads
    /\ bus' = f.h.rest
    /\ UNCHANGED <<_i2c, unset>>
    /\ UNCHANGED codec
    /\ IF f.h.ret = "IndexError" \/ raised
       THEN /\ pc' = "raised"
            /\ UNCHANGED <<left_speed, right_speed, rams, current_state,
                           align_counter, centered_run>>
            /\ UNCHANGED tracking
       ELSE branch

\* the pass has got the basket block b (or None), from a fetch that
\* succeeded (fresh) or from the snapshot a failed fetch left: the run of
\* passes in a row whose frame showed the basket centered grows or ends
SeenBasket(b, fresh) ==
    centered_run' = IF fresh /\ BasketCentered(b)
                    THEN (IF centered_run < MaxCenteredRun THEN centered_run + 1
                          ELSE MaxCenteredRun)
                    ELSE 0

\* state 0: look for the basket
LookForBasket(found, fresh) ==
    /\ current_state = 0
    /\ SeenBasket(found.block, fresh)
    /\ IF found.block # None
       THEN set_speed(0, 0) /\ current_state' = 1
       ELSE set_speed(SEARCH_TURN_SPEED, -SEARCH_TURN_SPEED) /\ current_state' = 0
    /\ UNCHANGED <<pc, rams, align_counter>>
    /\ UNCHANGED tracking

\* state 1: line up, rotating only
LineUp(found, fresh) ==
    /\ current_state = 1
    /\ SeenBasket(found.block, fresh)
    /\ IF found.block = None
       THEN /\ align_counter' = 0
            /\ current_state' = 0
            /\ UNCHANGED <<left_speed, right_speed>>
       ELSE IF BasketLeft(found.block)
       THEN /\ set_speed(-LINEUP_TURN_SPEED, LINEUP_TURN_SPEED)
            /\ align_counter' = 0
            /\ current_state' = 1
       ELSE IF BasketRight(found.block)
       THEN /\ set_speed(LINEUP_TURN_SPEED, -LINEUP_TURN_SPEED)
            /\ align_counter' = 0
            /\ current_state' = 1
       ELSE /\ set_speed(0, 0)
            /\ align_counter' = align_counter + 1
            /\ current_state' = IF align_counter + 1 >= kAlignFrames THEN 2 ELSE 1
    /\ UNCHANGED <<pc, rams>>
    /\ UNCHANGED tracking

\* state 2: ram the basket, drivetrain.straight at MAX_EFFORT
Ram(found, fresh) ==
    /\ current_state = 2
    /\ SeenBasket(found.block, fresh)
    /\ rams' = rams + 1
    /\ current_state' = 3
    /\ UNCHANGED <<pc, left_speed, right_speed, align_counter>>
    /\ UNCHANGED tracking

\* any other state: stop, then sleep for ever
AllDone(found, fresh) ==
    /\ current_state \notin {0, 1, 2}
    /\ SeenBasket(found.block, fresh)
    /\ set_speed(0, 0)
    /\ pc' = "final"
    /\ UNCHANGED <<rams, current_state, align_counter>>
    /\ UNCHANGED tracking

\* the basket block of the list the fetch f returned
FoundBasket(f) == get_basket_block(f.h.blocks)

NextRam ==
    \/ encoder_turn
    \/ encoder_turn_done
    \/ ram_object
    \/ \E f \in LoopFetches(RamResponses, MaxLoopPending) :
          LoopPass(pc = "loop" /\ current_state = 0, f, FoundBasket(f).raised,
                   LookForBasket(FoundBasket(f), Fresh(f)))
    \/ \E f \in LoopFetches(RamResponses, MaxLoopPending) :
          LoopPass(pc = "loop" /\ current_state = 1, f, FoundBasket(f).raised,
                   LineUp(FoundBasket(f), Fresh(f)))
    \/ \E f \in LoopFetches(RamResponses, MaxLoopPending) :
          LoopPass(pc = "loop" /\ current_state = 2, f, FoundBasket(f).raised,
                   Ram(FoundBasket(f), Fresh(f)))
    \/ \E f \in LoopFetches(RamResponses, MaxLoopPending) :
          LoopPass(pc = "loop" /\ current_state \notin {0, 1, 2}, f, FoundBasket(f).raised,
                   AllDone(FoundBasket(f), Fresh(f)))

\* the script runs on: a pass of the loop that can be taken is taken
SpecRam == ScriptInit /\ [][NextRam]_vars /\ WF_vars(NextRam)

(***************************************************************************)
(* track_object.py: follow the ensemble of the blocks with ids 1, 2 and 3. *)
(* The script keeps the last SMOOTH_WINDOW measurements in x_history and   *)
(* area_history and, on its first detection, asks the device ten more      *)
(* times to fix desired_area.  An entry of x_history is the float          *)
(* xCenter / HUSKY_WIDTH; it is kept here as its numerator xCenter, and    *)
(* desired_area, the float area_sum / valid_samples, as the pair           *)
(* [num, den]; the floats are computed where the script compares them.     *)
(* The areas are whole numbers below 2^31, which floats hold exactly.      *)
(***************************************************************************)
TRACK_IDS == {1, 2, 3}
SMOOTH_WINDOW == 3
\* in hundredths: X_TARGET = 0.5, X_DEADZONE = 0.05, AREA_TOLERANCE = 0.15
X_TARGET == 50
X_DEADZONE == 5
AREA_TOLERANCE == 15
YAW_TURN_SPEED == 5
\* SEARCH_TURN_SPEED of track_object.py
TRACK_SEARCH_TURN_SPEED == 5
FORWARD_SPEED == 6
BACKWARD_SPEED == 6
\* for _ in range(10)
kCalibrationSamples == 10

\* what the device may deliver in answer to the blocks request of one pass
\* of the main loop: nothing seen, a tracked block in the center, one far
\* left, an untracked id, two tracked blocks of which the larger is far
\* right (the mean of 4 and 284 is the left edge of the deadzone, 0.45, and
\* the script's float mean is below it), a tracked block of no area, a busy
\* answer, a refused record, and a short envelope
TrackResponses ==
    { <<Envelope(0, 1)>>,
      <<Envelope(1, 1), BlockAt(160, 40, 30, 1)>>,
      <<Envelope(1, 1), BlockAt(4, 40, 30, 2)>>,
      <<Envelope(1, 1), BlockAt(160, 40, 30, 4)>>,
      <<Envelope(2, 1), BlockAt(100, 20, 30, 2), BlockAt(284, 60, 40, 3)>>,
      <<Envelope(1, 1), BlockAt(160, 0, 30, 1)>>,
      <<BusyPkt>>,
      <<Envelope(1, 1), OkPkt>>,
      <<ShortEnvelope>> }

\* and in answer to one of the ten requests of the calibration
CalibrationResponses ==
    { <<Envelope(0, 1)>>,
      <<Envelope(1, 1), BlockAt(160, 40, 30, 1)>>,
      <<BusyPkt>>,
      <<Envelope(1, 1), OkPkt>> }

\* get_tracked_color_ensemble on the list get_objects_of_interest returned:
\* the block with an id of TRACK_IDS of the largest area, the first of them
\* when several have it, or None, and the sum of the areas of all of them;
\* `b.id` raises AttributeError on a None entry
get_tracked_color_ensemble(objects) ==
    IF \E i \in 1..Len(objects) : objects[i] = None
    THEN [block |-> None, raised |-> TRUE, total_area |-> 0]
    ELSE LET c == {i \in 1..Len(objects) : objects[i].id \in TRACK_IDS}
             areas == [i \in 1..Len(objects) |->
                          IF i \in c THEN BlockArea(objects[i]) ELSE 0]
         IN  [block  |-> IF c = {} THEN None
                         ELSE objects[CHOOSE i \in c : \A j \in c :
                                 \/ BlockArea(objects[j]) < BlockArea(objects[i])
                                 \/ /\ BlockArea(objects[j]) = BlockArea(objects[i])
                                    /\ i <= j],
              raised |-> FALSE,
              total_area |-> SumSeq(areas)]

\* `block is None or total_area <= 0` is false
Detected(found) == found.block # None /\ found.total_area > 0

\* append, then pop(0) when the list is longer than SMOOTH_WINDOW
Smoothed(history, v) ==
    LET h == Append(history, v)
    IN  IF Len(h) > SMOOTH_WINDOW THEN Tail(h) ELSE h

\* X_TARGET - X_DEADZONE and X_TARGET + X_DEADZONE
XLeftEdge == FSub(Hundredths(X_TARGET), Hundredths(X_DEADZONE))
XRightEdge == FAdd(Hundredths(X_TARGET), Hundredths(X_DEADZONE))

\* 1.0 - AREA_TOLERANCE and 1.0 + AREA_TOLERANCE
RatioLow == FSub(FromInt(1), Hundredths(AREA_TOLERANCE))
RatioHigh == FAdd(FromInt(1), Hundredths(AREA_TOLERANCE))

\* x_center = sum(x_history) / len(x_history), the entries being
\* xCenter / HUSKY_WIDTH
XCenter(xs) ==
    FDiv(FSum([i \in 1..Len(xs) |-> Normalised(xs[i])]), FromInt(Len(xs)))

\* x_center < X_TARGET - X_DEADZONE and x_center > X_TARGET + X_DEADZONE
EnsembleLeft(x_center) == FLess(x_center, XLeftEdge)
EnsembleRight(x_center) == FLess(XRightEdge, x_center)

\* ratio = total_area_smoothed / desired_area if desired_area > 0 else 1.0,
\* for total_area_smoothed = sum(area_history) / len(area_history) and
\* desired_area = d.num / d.den
Ratio(areas, d) ==
    IF d.num > 0
    THEN FDiv(FDiv(FromInt(SumSeq(areas)), FromInt(Len(areas))),
              FDiv(FromInt(d.num), FromInt(d.den)))
    ELSE FromInt(1)

\* ratio < 1.0 - AREA_TOLERANCE and ratio > 1.0 + AREA_TOLERANCE
TooFar(ratio) == FLess(ratio, RatioLow)
TooClose(ratio) == FLess(RatioHigh, ratio)

\* yaw control on x_center, then distance control on ratio when centered
\* horizontally
Steer(xs, areas, d) ==
    \E x_center \in {XCenter(xs)} :
        IF EnsembleLeft(x_center)
        THEN set_speed(-YAW_TURN_SPEED, YAW_TURN_SPEED)
        ELSE IF EnsembleRight(x_center)
        THEN set_speed(YAW_TURN_SPEED, -YAW_TURN_SPEED)
        ELSE \E ratio \in {Ratio(areas, d)} :
                IF TooFar(ratio) THEN set_speed(FORWARD_SPEED, FORWARD_SPEED)
                ELSE IF TooClose(ratio)
                THEN set_speed(-BACKWARD_SPEED, -BACKWARD_SPEED)
                ELSE set_speed(0, 0)

ramming == <<rams, current_state, align_counter, centered_run>>

\* track_object up to its loop
track_object ==
    /\ pc = "idle"
    /\ pc' = "loop"
    /\ UNCHANGED <<left_speed, right_speed>>
    /\ UNCHANGED ramming
    /\ UNCHANGED tracking
    /\ UNCHANGED driver
    /\ UNCHANGED codec

\* the frames in a row, up to this one, that the camera delivered with a
\* tracked ensemble in them; a pass whose fetch failed got no frame
SeenEnsemble(found, fresh) ==
    seen_run' = IF ~fresh THEN seen_run
                ELSE IF Detected(found)
                THEN Smoothed(seen_run, [area |-> found.total_area,
                                         x    |-> found.block.xCenter])
                ELSE <<>>

\* one pass of `while True`: search when no tracked colors are there, else
\* smooth, then steer, or calibrate first when desired_area is None
TrackPass(found, fresh) ==
    /\ SeenEnsemble(found, fresh)
    /\ IF ~Detected(found)
       THEN /\ set_speed(TRACK_SEARCH_TURN_SPEED, -TRACK_SEARCH_TURN_SPEED)
            /\ x_history' = <<>>
            /\ area_history' = <<>>
            /\ UNCHANGED <<pc, desired_area, samples_taken, area_sum, valid_samples>>
       ELSE /\ x_history' = Smoothed(x_history, found.block.xCenter)
            /\ area_history' = Smoothed(area_history, found.total_area)
            /\ IF desired_area = None
               THEN /\ pc' = "calibrate"
                    /\ samples_taken' = 0
                    /\ area_sum' = 0
                    /\ valid_samples' = 0
                    /\ UNCHANGED <<desired_area, left_speed, right_speed>>
               ELSE /\ Steer(x_history', area_history', desired_area)
                    /\ UNCHANGED <<pc, desired_area, samples_taken, area_sum,
                                   valid_samples>>
    /\ UNCHANGED ramming

\* one sample of the calibration; the tenth sets desired_area and the pass
\* then steers with the values it smoothed before
CalibrationSample(found, fresh) ==
    LET sum == IF Detected(found) THEN area_sum + found.total_area ELSE area_sum
        n   == IF Detected(found) THEN valid_samples + 1 ELSE valid_samples
        d   == IF n > 0
               THEN [den |-> n, num |-> sum]
               ELSE [den |-> Len(area_history), num |-> SumSeq(area_history)]
    IN  /\ samples_taken' = samples_taken + 1
        /\ area_sum' = sum
        /\ valid_samples' = n
        /\ IF samples_taken + 1 = kCalibrationSamples
           THEN /\ desired_area' = d
                /\ Steer(x_history, area_history, d)
                /\ pc' = "loop"
           ELSE UNCHANGED <<pc, desired_area, left_speed, right_speed>>
        /\ UNCHANGED <<x_history, area_history, seen_run>>
        /\ UNCHANGED ramming

\* the tracked ensemble of the list the fetch f returned
FoundEnsemble(f) == get_tracked_color_ensemble(f.h.blocks)

NextTrack ==
    \/ track_object
    \/ \E f \in LoopFetches(TrackResponses, MaxLoopPending) :
          LoopPass(pc = "loop", f, FoundEnsemble(f).raised,
                   TrackPass(FoundEnsemble(f), Fresh(f)))
    \/ \E f \in LoopFetches(CalibrationResponses, MaxLoopPending) :
          LoopPass(pc = "calibrate", f, FoundEnsemble(f).raised,
                   CalibrationSample(FoundEnsemble(f), Fresh(f)))

\* the script runs on: a pass of the loop that can be taken is taken
SpecTrack == ScriptInit /\ [][NextTrack]_vars /\ WF_vars(NextTrack)

(***************************************************************************)
(* tag_recognition.py: turn or drive as the first tag in view says.  run   *)
(* checks the connection, initialises the camera with begin and then       *)
(* loops: one action is one pass of the loop, the call of                  *)
(* get_objects_of_interest and act on the first object with an id above 0. *)
(* drivetrain.straight is counted in rams; drivetrain.turn is not kept.    *)
(***************************************************************************)
\* ids of the objects act is called with: none, the two ends of the turns,
\* the two ends of the drives, and one past them
TagIds == {0, 1, 4, 5, 8, 9}

\* what the device may deliver in answer to the request of begin
TagBeginResponses ==
    { <<Envelope(0, 1)>>,
      <<Envelope(1, 1), BlockAt(160, 40, 30, 6)>>,
      <<BusyPkt>> }

\* and in answer to the blocks request of one pass of the loop: nothing
\* seen, a turn tag, a drive tag, an id past the table, an id 0 in front of
\* a drive tag, a busy answer, a refused record, and a short envelope
TagResponses ==
    { <<Envelope(0, 1)>>,
      <<Envelope(1, 1), BlockAt(160, 40, 30, 1)>>,
      <<Envelope(1, 1), BlockAt(160, 40, 30, 6)>>,
      <<Envelope(1, 1), BlockAt(160, 40, 30, 9)>>,
      <<Envelope(2, 1), BlockAt(100, 40, 30, 0), BlockAt(160, 40, 30, 8)>>,
      <<BusyPkt>>,
      <<Envelope(1, 1), OkPkt>>,
      <<ShortEnvelope>> }

\* a call of the driver a script makes outside its loop: the operation o
\* with its result and what it wrote and read, after which the script goes
\* on as `branch` says
ScriptCall(o, resp, r, b, a, n, w, rd, rest, branch) ==
    /\ Len(rest) <= MaxLoopPending
    /\ stale' = bus
    /\ answer' = resp
    /\ op' = o
    /\ ret' = r
    /\ blocks' = b
    /\ arrows' = a
    /\ nLearned' = n
    /\ idToName' = idToName
    /\ written' = w
    /\ reads' = rd
    /\ bus' = rest
    /\ UNCHANGED <<_i2c, unset>>
    /\ UNCHANGED codec
    /\ branch

\* the script is at p next, the robot as it is
Goto(p) ==
    /\ pc' = p
    /\ UNCHANGED <<left_speed, right_speed>>
    /\ UNCHANGED ramming
    /\ UNCHANGED tracking

\* the body of act for an object of the given id: drivetrain.turn for the
\* ids 1..4, drivetrain.straight for 5..8, nothing for any other
Drive(id) ==
    /\ id \in 5..8 => rams < MaxStraights
    /\ rams' = IF id \in 5..8 THEN rams + 1 ELSE rams
    /\ UNCHANGED <<pc, left_speed, right_speed, current_state, align_counter,
                   centered_run>>
    /\ UNCHANGED tracking

\* act(obj)
act ==
    /\ pc = "idle"
    /\ \E id \in TagIds : Drive(id)
    /\ UNCHANGED driver
    /\ UNCHANGED codec

\* run up to begin: `if not my_husky.connected: sys.exit()`
run ==
    /\ pc = "idle"
    /\ \E present \in BOOLEAN :
          IF ~present
          THEN ScriptCall(Call("is_connected", 0, <<>>), <<>>, "False", blocks, arrows,
                          nLearned, <<>>, <<>>, bus, Goto("exited"))
          ELSE \E resp \in AckStatusResponses :
               \E g \in {_get_response(bus \o Concat(resp))} :
                  /\ g.done
                  /\ ScriptCall(Call("is_connected", 1, <<>>), resp,
                                Bool(g.response.valid
                                     /\ g.response.command = kCommandReturnOk),
                                blocks, arrows, nLearned,
                                <<_send_command(kCommandRequestKnock, <<>>)>>,
                                <<g.response>>, Drop(bus \o Concat(resp), g.consumed),
                                Goto(IF g.response.valid
                                        /\ g.response.command = kCommandReturnOk
                                     THEN "begin" ELSE "exited"))

\* `if my_husky.begin() == False: return`, begin being is_connected and
\* then request; an IndexError of the request leaves the script
run_begin ==
    /\ pc = "begin"
    /\ \E present \in BOOLEAN :
          IF ~present
          THEN ScriptCall(Call("begin", 0, <<>>), <<>>, "False", blocks, arrows, nLearned,
                          <<>>, <<>>, bus, Goto("idle"))
          ELSE \E knock \in {<<OkPkt>>, <<BusyPkt>>} :
               \E k \in {_get_response(bus \o Concat(knock))} :
                  /\ k.done
                  /\ IF ~(k.response.valid /\ k.response.command = kCommandReturnOk)
                     THEN ScriptCall(Call("begin", 1, <<>>), knock, "False", blocks, arrows,
                                     nLearned,
                                     <<_send_command(kCommandRequestKnock, <<>>)>>,
                                     <<k.response>>,
                                     Drop(bus \o Concat(knock), k.consumed), Goto("idle"))
                     ELSE \E resp \in TagBeginResponses :
                          \E g \in {_get_response(Drop(bus \o Concat(knock), k.consumed)
                                                  \o Concat(resp))} :
                          \E h \in {_handle_response_mixed(
                                        g.response,
                                        Drop(Drop(bus \o Concat(knock), k.consumed)
                                             \o Concat(resp), g.consumed),
                                        blocks, arrows, nLearned)} :
                              /\ g.done
                              /\ h.done
                              /\ ScriptCall(Call("begin", 1, <<>>), knock \o resp, h.ret,
                                            h.blocks, h.arrows, h.nLearned,
                                            <<_send_command(kCommandRequestKnock, <<>>),
                                              _send_command(kCommandRequest, <<>>)>>,
                                            <<k.response, g.response>> \o h.reads,
                                            h.rest,
                                            Goto(IF h.ret = "False" THEN "idle"
                                                 ELSE IF h.ret = "IndexError" THEN "raised"
                                                 ELSE "loop"))

\* the object the `for` loop of run acts on: the first one with an id above
\* 0, none for id 0; `obj.id` raises AttributeError on a None entry met
\* before it
FirstTag(objects) ==
    LET stop == {i \in 1..Len(objects) : objects[i] = None \/ objects[i].id > 0}
    IN  IF stop = {} THEN [raised |-> FALSE, id |-> 0]
        ELSE IF objects[CHOOSE i \in stop : \A j \in stop : i <= j] = None
        THEN [raised |-> TRUE, id |-> 0]
        ELSE [raised |-> FALSE,
              id |-> objects[CHOOSE i \in stop : \A j \in stop : i <= j].id]

NextTag ==
    \/ act
    \/ run
    \/ run_begin
    \/ \E f \in LoopFetches(TagResponses, MaxLoopPending) :
          LoopPass(pc = "loop", f, FirstTag(f.h.blocks).raised,
                   Drive(FirstTag(f.h.blocks).id))

SpecTag == ScriptInit /\ [][NextTag]_vars

(***************************************************************************)
(* Vocabulary of the properties: a frame as the wire format defines it,    *)
(* read off the raw bytes.                                                 *)
(***************************************************************************)
\* the session exchanges packets with the device: __init__ had its I2C
\* driver; without one every operation that reaches the bus raises
\* AttributeError before it writes
HasDriver == _i2c = "driver"

\* the checksum byte is the sum of every preceding byte mod 256
FrameValid(f) == f[Len(f)] = SumSeq(SubSeq(f, 1, Len(f) - 1)) % 256
FrameCommand(f) == f[5]
FramePayload(f) == SubSeq(f, 6, Len(f) - 1)

(***************************************************************************)
(* Properties of the codec (SpecCodec).                                    *)
(***************************************************************************)
\* C1: decoding the packet _send_command builds for (command, payload) gives
\* valid = TRUE, the original command and payload, a declared length equal
\* to the payload length, and a checksum byte equal to the sum of header,
\* address, length, command and payload bytes mod 256.
C1_RoundTrip ==
    cStage = "decoded" =>
        /\ cResponse.valid = TRUE
        /\ cResponse.command = cCommand
        /\ cResponse.data = cData
        /\ cResponse.dlen = Len(cData)
        /\ cResponse.checksum =
              (85 + 170 + 17 + Len(cData) + cCommand + SumSeq(cData)) % 256

\* a decoded two-byte payload whose byte sum wraps past 256 more than once
C1_Witness ==
    /\ cStage = "decoded"
    /\ Len(cData) = 2
    /\ cResponse.valid
    /\ SumSeq(cWire) - cWire[Len(cWire)] > 512

\* C2: a valid packet with one byte other than the checksum replaced by a
\* different value decodes with valid = FALSE; the decode completes and
\* reports the packet's fields, it does not fail.
C2_CorruptionDetected ==
    cStage = "decodedCorrupted" =>
        /\ cWire # _send_command(cCommand, cData)
        /\ cWire[Len(cWire)] = _send_command(cCommand, cData)[Len(cWire)]
        /\ cResponse.valid = FALSE
        /\ cResponse.checksum = cWire[Len(cWire)]
        /\ cResponse.command = cWire[5]

\* a decoded packet whose first header byte was overwritten
C2_Witness ==
    /\ cStage = "decodedCorrupted"
    /\ cWire[1] # 85
    /\ Len(cData) = 2
    /\ ~cResponse.valid

\* C3: behind any garbage bytes other than 0x55, _get_response consumes
\* exactly the garbage and the packet, and returns the packet's header,
\* address, length, command, payload, checksum and valid flag.
C3_Resync ==
    cStage = "framed" =>
        /\ \A i \in 1..Len(cGarbage) : cGarbage[i] # 85
        /\ cConsumed = Len(cGarbage) + Len(cWire)
        /\ cResponse = [header   |-> 85,
                        header2  |-> 170,
                        address  |-> 17,
                        dlen     |-> Len(cData),
                        command  |-> cCommand,
                        data     |-> cData,
                        checksum |-> cWire[Len(cWire)],
                        valid    |-> TRUE]

\* two garbage bytes, a payload that itself holds 0x55, and a byte after the frame
C3_Witness ==
    /\ cStage = "framed"
    /\ Len(cGarbage) = 2
    /\ cTail # <<>>
    /\ cData = <<85, 85>>
    /\ cConsumed = 2 + Len(cWire)

(***************************************************************************)
(* Vocabulary of the aggregation properties.                               *)
(***************************************************************************)
\* the k-th 16-bit field of a payload, low byte first (k from 0)
Field16(d, k) == d[2 * k + 1] + 256 * d[2 * k + 2]

BlockOfData(d) ==
    [xCenter |-> Field16(d, 0), yCenter |-> Field16(d, 1), width |-> Field16(d, 2),
     height |-> Field16(d, 3), id |-> Field16(d, 4)]

ArrowOfData(d) ==
    [xOrigin |-> Field16(d, 0), yOrigin |-> Field16(d, 1), xTarget |-> Field16(d, 2),
     yTarget |-> Field16(d, 3), id |-> Field16(d, 4)]

\* a valid info envelope with its three fields
IsInfoFrame(f) ==
    FrameValid(f) /\ FrameCommand(f) = 41 /\ Len(FramePayload(f)) >= 6

\* a valid block / arrow record with its five fields
IsBlockFrame(f) ==
    FrameValid(f) /\ FrameCommand(f) = 42 /\ Len(FramePayload(f)) >= 10
IsArrowFrame(f) ==
    FrameValid(f) /\ FrameCommand(f) = 43 /\ Len(FramePayload(f)) >= 10

DeclaredCount(f) == Field16(FramePayload(f), 0)
DeclaredLearned(f) == Field16(FramePayload(f), 1)

\* the aggregation mode of a fetch operation
MixedOps == {"request", "request_learned"}
BlocksOps == {"request_blocks", "request_blocks_learned"}
ArrowsOps == {"request_arrows", "request_arrows_learned"}

\* the command codes a mode expects of a trailing packet
ExpectedCodes(name) ==
    IF name \in BlocksOps THEN {42}
    ELSE IF name \in ArrowsOps THEN {43}
    ELSE {42, 43}

\* the frame is a record the mode of operation `name` decodes
Accepted(name, f) ==
    (IsBlockFrame(f) \/ IsArrowFrame(f)) /\ FrameCommand(f) \in ExpectedCodes(name)

\* the frame is invalid or carries a code the mode does not expect
Offending(name, f) == ~FrameValid(f) \/ FrameCommand(f) \notin ExpectedCodes(name)

\* the device answered the operation, on a bus with nothing stale, with a
\* valid envelope followed by exactly the number of frames it declares
EnvelopeAndRecords ==
    /\ stale = <<>>
    /\ Len(answer) >= 1
    /\ IsInfoFrame(answer[1])
    /\ Len(answer) = 1 + DeclaredCount(answer[1])

BlocksOfFrames(fs) ==
    LET sel == SelectSeq(fs, IsBlockFrame)
    IN  [i \in 1..Len(sel) |-> BlockOfData(FramePayload(sel[i]))]

ArrowsOfFrames(fs) ==
    LET sel == SelectSeq(fs, IsArrowFrame)
    IN  [i \in 1..Len(sel) |-> ArrowOfData(FramePayload(sel[i]))]

(***************************************************************************)
(* Properties of the aggregation (SpecFetch).                              *)
(***************************************************************************)
\* C4: in mixed aggregation, a valid envelope declaring N followed by N valid
\* block or arrow records gives success, the blocks in arrival order, the
\* arrows in arrival order, N records in all, and the learned-id count of
\* the envelope.
C4_MixedAggregation ==
    ( /\ op.name \in MixedOps
      /\ EnvelopeAndRecords
      /\ \A i \in 2..Len(answer) : IsBlockFrame(answer[i]) \/ IsArrowFrame(answer[i]) )
    => /\ ret = "True"
       /\ blocks = BlocksOfFrames(Tail(answer))
       /\ arrows = ArrowsOfFrames(Tail(answer))
       /\ Len(blocks) + Len(arrows) = DeclaredCount(answer[1])
       /\ nLearned = DeclaredLearned(answer[1])

\* request_learned answered by an envelope declaring 2, an arrow, then a block
C4_Witness ==
    /\ HasDriver
    /\ op.name = "request_learned"
    /\ EnvelopeAndRecords
    /\ DeclaredCount(answer[1]) = 2
    /\ IsArrowFrame(answer[2])
    /\ IsBlockFrame(answer[3])
    /\ ret = "True"
    /\ Len(blocks) = 1
    /\ Len(arrows) = 1

\* the device answered the operation, on a bus with nothing stale, with a
\* valid envelope that declares a record count, followed by exactly that
\* number of frames
EnvelopeDeclaring ==
    /\ stale = <<>>
    /\ Len(answer) >= 1
    /\ FrameValid(answer[1])
    /\ FrameCommand(answer[1]) = 41
    /\ Len(FramePayload(answer[1])) >= 2
    /\ Len(answer) = 1 + DeclaredCount(answer[1])

\* C5: in every mode, when a valid envelope declares N and one of the N
\* trailing packets is invalid or carries a code the mode does not expect,
\* the fetch reports failure: its result is the failure value, not a list
\* of the records read before the offending packet.
C5_AbortReportsFailure ==
    ( /\ op.name \in MixedOps \cup BlocksOps \cup ArrowsOps
      /\ EnvelopeDeclaring
      /\ \E j \in 2..Len(answer) : Offending(op.name, answer[j]) )
    => ret = "False"

\* What the handlers do guarantee: the failure value is returned when the
\* envelope has its three fields and every packet before the offending one
\* is a record of five fields that the mode decodes.
AbortAfterDecodedRecords ==
    ( /\ op.name \in MixedOps \cup BlocksOps \cup ArrowsOps
      /\ EnvelopeAndRecords
      /\ \E j \in 2..Len(answer) :
            /\ Offending(op.name, answer[j])
            /\ \A i \in 2..(j - 1) : Accepted(op.name, answer[i]) )
    => ret = "False"

\* C9: after a successful fetch the snapshot of its mode holds exactly the
\* records read by that fetch, as many as its envelope declares, and the
\* learned-id count is the one of its envelope.
C9_SnapshotReplaced ==
    ( /\ op.name \in MixedOps \cup BlocksOps \cup ArrowsOps
      /\ ret = "True" )
    => LET n == Field16(reads[1].data, 0)
           recs == Tail(reads)
           IsB(r) == r.command = 42
           IsA(r) == r.command = 43
           bs == SelectSeq(recs, IsB)
           as == SelectSeq(recs, IsA)
       IN  /\ Len(recs) = n
           /\ nLearned = Field16(reads[1].data, 1)
           /\ op.name \in BlocksOps =>
                 blocks = [i \in 1..n |-> BlockOfData(recs[i].data)]
           /\ op.name \in ArrowsOps =>
                 arrows = [i \in 1..n |-> ArrowOfData(recs[i].data)]
           /\ op.name \in MixedOps =>
                 /\ blocks = [i \in 1..Len(bs) |-> BlockOfData(bs[i].data)]
                 /\ arrows = [i \in 1..Len(as) |-> ArrowOfData(as[i].data)]
                 /\ Len(bs) + Len(as) = n

\* a successful blocks-only fetch of one record in a session whose arrows
\* snapshot was filled by an earlier fetch
C9_Witness ==
    /\ HasDriver
    /\ op.name = "request_blocks"
    /\ ret = "True"
    /\ Len(blocks) = 1
    /\ Len(arrows) = 2
    /\ None \notin {arrows[i] : i \in 1..Len(arrows)}

(***************************************************************************)
(* Properties of the driver session (Spec).                                *)
(***************************************************************************)
\* C6: request_algorithm and set_algorithm called with a code that is not
\* one of the seven algorithm codes (0 to 6) report failure, write nothing
\* to the bus, read nothing from it and leave the driver state unchanged.
C6_AlgorithmRejected ==
    [][ ( /\ op'.name \in {"request_algorithm", "set_algorithm"}
          /\ op'.id \notin 0..6 )
        => /\ ret' = "False"
           /\ written' = <<>>
           /\ reads' = <<>>
           /\ UNCHANGED <<blocks, arrows, nLearned, idToName, bus>> ]_vars

\* set_algorithm(256) rejected in a session that holds a name and a snapshot
C6_Witness ==
    /\ HasDriver
    /\ op.name = "set_algorithm"
    /\ op.id = 256
    /\ ret = "False"
    /\ written = <<>>
    /\ idToName # EmptyDict
    /\ blocks # <<>>

\* C7: forget (and request_forget) leaves the learned-id count at 0 and the
\* id-to-name mapping empty, and in the same operation writes exactly one
\* forget packet (command 0x37, no payload), whatever the device answers,
\* if anything: the operation reads nothing.
\* The session is one __init__ left with its I2C driver (HasDriver).
C7_ForgetClears ==
    HasDriver =>
    (
    op.name \in {"forget", "request_forget"}
    => /\ nLearned = 0
       /\ idToName = EmptyDict
       /\ written = << <<85, 170, 17, 0, 55, 71>> >>
       /\ reads = <<>>
       /\ ret = "None"
    )

\* forget on a session with a snapshot, the device giving no response
C7_Witness ==
    /\ HasDriver
    /\ op.name = "forget"
    /\ answer = <<>>
    /\ nLearned = 0
    /\ idToName = EmptyDict
    /\ Len(written) = 1
    /\ arrows # <<>>

\* the ids looked up: the ones named in the session and two never named
QueryIds == 0..3

\* C8: get_name_for_id(id) returns the name of the most recent naming of id
\* (request_custom_names or name_last, acknowledged by the device or not)
\* that no forget followed, and not-found otherwise: no id is found at
\* first, a naming makes its id return its name and changes no other id,
\* a forget makes every id not-found, every other operation changes no
\* lookup.
\* The session is one __init__ left with its I2C driver (HasDriver).
C8_NameLookup ==
    /\ HasDriver => \A id \in QueryIds : get_name_for_id(id) = [found |-> FALSE, name |-> <<>>,
                                                                raised |-> FALSE]
    /\ [][ HasDriver => \A id \in QueryIds :
              IF op'.name \in {"request_custom_names", "name_last"} /\ op'.id = id
              THEN get_name_for_id(id)' = [found |-> TRUE, name |-> op'.str,
                                           raised |-> FALSE]
              ELSE IF op'.name \in {"forget", "request_forget"}
              THEN ~get_name_for_id(id)'.found
              ELSE get_name_for_id(id)' = get_name_for_id(id) ]_vars

\* a naming the device did not acknowledge is the one the lookup returns
C8_Witness ==
    /\ HasDriver
    /\ op.name = "request_custom_names"
    /\ answer = <<>>
    /\ op.str = <<72, 105>>
    /\ get_name_for_id(op.id) = [found |-> TRUE, name |-> <<72, 105>>, raised |-> FALSE]
    /\ ~get_name_for_id(0).found

\* C10: no public operation raises, whatever bytes the device returns: a
\* failure is a result value, also for an envelope payload under 6 bytes, a
\* record payload under 10 bytes and an empty is-pro payload.
C10_NeverRaises == ret # "IndexError"

\* the bytes of the packet a response was decoded from
FrameOf(r) == <<r.header, r.header2, r.address, r.dlen, r.command>> \o r.data \o <<r.checksum>>

\* the bytes of the packets an operation read, in order
BytesRead == Concat([i \in 1..Len(reads) |-> FrameOf(reads[i])])

(***************************************************************************)
(* Properties of the status commands (SpecStatus).                         *)
(***************************************************************************)
StatusOps == {"request_knock", "request_algorithm", "set_algorithm", "request_is_pro"}

\* why a response is not the acknowledgment: a checksum failure, the busy
\* status (0x3D), the need-pro status (0x3E); "other" for any other packet
StatusCause(r) ==
    IF ~r.valid THEN "checksum"
    ELSE IF r.command = 61 THEN "busy"
    ELSE IF r.command = 62 THEN "need-pro"
    ELSE "other"

\* C11: the result of an operation answered by the busy status, by the
\* need-pro status or by a packet failing its checksum tells the three
\* apart (two calls of one operation with the same argument that meet two
\* of these causes give different results), and the command is not sent
\* again.
C11_StatusDistinguished ==
    [][ /\ ( /\ op'.name \in StatusOps
             /\ op'.name = op.name
             /\ op'.id = op.id
             /\ Len(reads) = 1
             /\ Len(reads') = 1
             /\ StatusCause(reads[1]) \in {"checksum", "busy", "need-pro"}
             /\ StatusCause(reads'[1]) \in {"checksum", "busy", "need-pro"}
             /\ StatusCause(reads'[1]) # StatusCause(reads[1]) )
           => ret' # ret
        /\ op'.name \in StatusOps => Len(written') <= 1 ]_vars

\* the code a status command expects of its reply: OK (0x2E) for the knock
\* and the algorithm selection, is-pro (0x3B) for the model-tier query
ExpectedReply(name) == IF name = "request_is_pro" THEN 59 ELSE 46

\* C15: a status command (request_knock, request_algorithm and
\* set_algorithm with a code of 0 to 6, request_is_pro) writes one command
\* packet and reads exactly one response packet; it succeeds only if that
\* packet is valid and carries the expected code, and an invalid packet or
\* any other code gives failure.
\* The session is one __init__ left with its I2C driver (HasDriver).
C15_StatusRoundTrip ==
    HasDriver =>
    (
    ( /\ op.name \in StatusOps
      /\ op.name \in {"request_algorithm", "set_algorithm"} => op.id \in 0..6 )
    => /\ Len(written) = 1
       /\ Len(reads) = 1
       /\ stale \o Concat(answer) = FrameOf(reads[1]) \o bus
       /\ ret = "True" =>
             reads[1].valid /\ reads[1].command = ExpectedReply(op.name)
       /\ (~reads[1].valid \/ reads[1].command # ExpectedReply(op.name)) =>
             ret = "False"
    )

\* set_algorithm(6) acknowledged by OK in an answer of two packets: the
\* second packet is not read
C15_Witness ==
    /\ HasDriver
    /\ op.name = "set_algorithm"
    /\ op.id = 6
    /\ ret = "True"
    /\ stale = <<>>
    /\ Len(answer) = 2
    /\ bus = answer[2]

\* C16: is_connected returns true exactly when the presence probe succeeds
\* and the knock that follows is answered by a valid OK packet; when the
\* probe fails it returns false, writes nothing and reads nothing.
\* The session is one __init__ left with its I2C driver (HasDriver).
C16_IsConnected ==
    HasDriver =>
    (
    op.name = "is_connected"
    => /\ ret \in {"True", "False"}
       /\ ret = "True" <=> /\ op.id = 1
                           /\ Len(reads) = 1
                           /\ reads[1].valid
                           /\ reads[1].command = 46
       /\ op.id = 1 => written = << <<85, 170, 17, 0, 44, 60>> >> /\ Len(reads) = 1
       /\ op.id = 0 => ret = "False" /\ written = <<>> /\ reads = <<>> /\ bus = stale
    )

\* the probe fails while an unread packet waits on the bus: nothing is
\* written and the packet stays
C16_Witness ==
    /\ HasDriver
    /\ op.name = "is_connected"
    /\ op.id = 0
    /\ ret = "False"
    /\ written = <<>>
    /\ bus # <<>>

(***************************************************************************)
(* Properties of the traffic of one call (SpecDriver, Spec).               *)
(***************************************************************************)
\* C12: no operation retries: a call of a public operation writes at most
\* one command packet, whatever the device answers.
C12_NoRetry == Len(written) <= 1

\* C13: when an operation that sent a command returns, the whole response
\* of the device to that command has been read: nothing is left unread on
\* the bus, and the next operation finds no packet of an earlier command
\* there.
C13_ResponseDrained ==
    (written # <<>> /\ ret # "IndexError") => bus = <<>>

\* C14: a successful fetch whose envelope declares N reads exactly N packets
\* after the envelope: N + 1 packets are read in all, they are the first
\* bytes the bus held, and every byte after them is still unread; with
\* N = 0 nothing is read after the envelope and the snapshot is empty.
C14_ExactlyDeclaredReads ==
    ( /\ op.name \in MixedOps \cup BlocksOps \cup ArrowsOps
      /\ ret = "True" )
    => LET n == Field16(reads[1].data, 0)
       IN  /\ Len(reads) = n + 1
           /\ stale \o Concat(answer) = BytesRead \o bus
           /\ n = 0 => /\ op.name \notin ArrowsOps => blocks = <<>>
                       /\ op.name \notin BlocksOps => arrows = <<>>

\* a successful blocks fetch of one record whose answer holds two: the
\* second is left on the bus
C14_Witness ==
    /\ HasDriver
    /\ op.name = "request_blocks"
    /\ ret = "True"
    /\ stale = <<>>
    /\ Len(answer) = 3
    /\ Len(reads) = 2
    /\ bus = answer[3]

(***************************************************************************)
(* Properties of what a fetch tells its caller (Spec, SpecClient).         *)
(***************************************************************************)
ByIdOps == {"request_by_id", "request_blocks_by_id", "request_arrows_by_id"}

\* the record codes the aggregation of a fetch operation takes
RecordCodes(name) ==
    IF name \in BlocksOps \cup {"request_blocks_by_id"} THEN {42}
    ELSE IF name \in ArrowsOps \cup {"request_arrows_by_id"} THEN {43}
    ELSE {42, 43}

\* the packets the operation read are a valid envelope and the number of
\* valid records of its mode that the envelope declares
ReadInSequence ==
    /\ reads[1].valid
    /\ reads[1].command = 41
    /\ Len(reads) = 1 + Field16(reads[1].data, 0)
    /\ \A i \in 2..Len(reads) :
          reads[i].valid /\ reads[i].command \in RecordCodes(op.name)

\* C17: every fetch operation, the by-id variants included, reports
\* failure when the envelope or a trailing record is invalid or out of
\* sequence and success otherwise: its result is the success value in the
\* one case and the failure value in the other.
\* The session is one __init__ left with its I2C driver (HasDriver).
C17_FetchReportsOutcome ==
    HasDriver =>
    (
    ( /\ op.name \in MixedOps \cup BlocksOps \cup ArrowsOps \cup ByIdOps
      /\ ret # "IndexError" )
    => ret = Bool(ReadInSequence)
    )

\* What the fetches other than the by-id variants guarantee.
FetchResultTellsOutcome ==
    ( /\ op.name \in MixedOps \cup BlocksOps \cup ArrowsOps
      /\ ret # "IndexError" )
    => ret = Bool(ReadInSequence)

\* C18: the list get_objects_of_interest returns holds only decoded Block
\* records and the list get_lines_of_interest returns only decoded Arrow
\* records, after any sequence of fetches: no placeholder of an aborted
\* aggregation is in it.
C18_NoPlaceholderReturned ==
    /\ (op.name = "get_objects_of_interest" /\ ret = "blocks") =>
          \A i \in 1..Len(blocks) : blocks[i] # None
    /\ (op.name = "get_lines_of_interest" /\ ret = "arrows") =>
          \A i \in 1..Len(arrows) : arrows[i] # None

(***************************************************************************)
(* Properties of the argument encodings (SpecCommand).                     *)
(***************************************************************************)
\* C19: request_custom_text with a text of more than 20 characters returns
\* failure and writes nothing; with a text of at most 20 characters it
\* writes exactly one custom-text packet (command 0x34) and returns
\* success.
\* The session is one __init__ left with its I2C driver (HasDriver).
C19_CustomTextLimit ==
    HasDriver =>
    (
    op.name = "request_custom_text"
    => IF Len(op.str) > 20
       THEN ret = "False" /\ written = <<>> /\ bus = stale
       ELSE /\ ret = "True"
            /\ Len(written) = 1
            /\ FrameValid(written[1])
            /\ FrameCommand(written[1]) = 52
            /\ written[1][4] = Len(FramePayload(written[1]))
    )

\* a text of exactly 20 characters is sent
C19_Witness ==
    /\ HasDriver
    /\ op.name = "request_custom_text"
    /\ Len(op.str) = 20
    /\ ret = "True"
    /\ Len(written) = 1
    /\ Len(FramePayload(written[1])) = 24

IdOps ==
    {"request_by_id", "request_blocks_by_id", "request_arrows_by_id", "request_learn",
     "request_send_knowledges", "request_receive_knowledges"}

\* C20: for an id or file number in 0..65535, each command that carries one
\* sends a payload of two bytes, low then high, both in 0..255, with
\* low + 256 * high equal to the id.
\* The session is one __init__ left with its I2C driver (HasDriver).
C20_IdEncoding ==
    HasDriver =>
    (
    (op.name \in IdOps /\ op.id \in 0..65535)
    => /\ Len(written) = 1
       /\ LET payload == FramePayload(written[1])
          IN  /\ Len(payload) = 2
              /\ payload[1] \in 0..255
              /\ payload[2] \in 0..255
              /\ payload[1] + 256 * payload[2] = op.id
    )

\* file number 65535 is sent as FF FF, id 256 as 00 01
C20_Witness ==
    /\ HasDriver
    /\ op.name = "request_send_knowledges"
    /\ op.id = 65535
    /\ FramePayload(written[1]) = <<255, 255>>

\* the payload the wire format gives a text placed at (x, y)
TextPayload(text, x, y) ==
    IF x <= 255
    THEN <<Len(text), 0, x, y>> \o text
    ELSE <<Len(text), 255, x % 255, y>> \o text

TextSent == op.name = "request_custom_text" /\ written # <<>>

\* C21: request_custom_text sends [text length, 0, x, y, text bytes] when
\* x <= 255 and [text length, 0xFF, x mod 255, y, text bytes] when x > 255;
\* two successive calls with the same text and y, whose x values are both
\* above 255 and differ by exactly 255, send the same payload.
C21_ExtendedXEncoding ==
    /\ [](TextSent => FramePayload(written[1]) = TextPayload(op.str, op.id, op.y))
    /\ [][(/\ TextSent
           /\ TextSent'
           /\ op.id > 255
           /\ op'.id = op.id + 255
           /\ op'.str = op.str
           /\ op'.y = op.y)
          => FramePayload(written'[1]) = FramePayload(written[1])]_vars

\* x = 511 is sent with the bytes x = 256 is sent with
C21_Witness ==
    /\ HasDriver
    /\ TextSent
    /\ op.id = 511
    /\ op.str = <<72, 105>>
    /\ op.y = 30
    /\ FramePayload(written[1]) = <<2, 255, 1, 30, 72, 105>>
    /\ FramePayload(written[1]) = TextPayload(op.str, 256, op.y)

NameSent == op.name = "request_custom_names"

\* the layout of the custom-name packet: one packet with command 0x2F whose
\* payload is the id, len(name) + 1, the characters and a zero, and whose
\* length byte is len(name) + 3
NamePacketLayout ==
    NameSent
    => /\ Len(written) = 1
       /\ FrameCommand(written[1]) = 47
       /\ FramePayload(written[1]) = <<op.id, Len(op.str) + 1>> \o op.str \o <<0>>
       /\ written[1][4] = Len(op.str) + 3

\* C22: request_custom_names(id, name) sends exactly one custom-name packet
\* whose payload is the id, then len(name) + 1, then one byte per character
\* of the name, then a single zero byte; the declared length byte is
\* len(name) + 3 and every payload byte is in 0..255.
\* The session is one __init__ left with its I2C driver (HasDriver).
C22_CustomNamePayload ==
    (HasDriver /\ NameSent)
    => /\ NamePacketLayout
       /\ \A i \in 1..Len(FramePayload(written[1])) : FramePayload(written[1])[i] \in 0..255

(***************************************************************************)
(* Properties of the session fields across operations (SpecDriver).        *)
(***************************************************************************)
ForgetOps == {"forget", "request_forget"}
NamingOps == {"request_custom_names", "name_last"}

\* C23: the id-to-name mapping loses entries only through forget; a naming
\* call changes only the entry of its own id; whenever the mapping is
\* emptied, the learned-id count is set to 0 in the same step.
\* The session is one __init__ left with its I2C driver (HasDriver).
C23_NamesLostOnlyByForget ==
    [][HasDriver =>
       /\ op'.name \notin ForgetOps
          => \A k \in DOMAIN idToName : k \in DOMAIN idToName'
       /\ op'.name \in NamingOps
          => /\ DOMAIN idToName' = DOMAIN idToName \cup {op'.id}
             /\ idToName'[op'.id] = op'.str
             /\ \A k \in DOMAIN idToName \ {op'.id} : idToName'[k] = idToName[k]
       /\ (DOMAIN idToName # {} /\ DOMAIN idToName' = {})
          => nLearned' = 0]_vars

\* a second id has been named and the first kept its name
C23_Witness ==
    /\ HasDriver
    /\ op.name \in NamingOps
    /\ Cardinality(DOMAIN idToName) >= 2
    /\ \E k \in DOMAIN idToName \ {op.id} : idToName[k] # op.str

(***************************************************************************)
(* Properties of an aborted aggregation (SpecFetch).                       *)
(***************************************************************************)
FetchOps == MixedOps \cup BlocksOps \cup ArrowsOps

\* the device answered, on a bus with nothing stale, with a valid envelope
\* that declares a record count
EnvelopeFirst ==
    /\ stale = <<>>
    /\ Len(answer) >= 1
    /\ FrameValid(answer[1])
    /\ FrameCommand(answer[1]) = 41
    /\ Len(FramePayload(answer[1])) >= 2

\* positions in the answer of the declared trailing packets that are
\* invalid or carry a code the mode does not expect
OffendingAt ==
    { j \in 2..Len(answer) :
        j <= 1 + DeclaredCount(answer[1]) /\ Offending(op.name, answer[j]) }

\* the frames of the answer from position k on, as bytes
AnswerFrom(k) == Concat(SubSeq(answer, k, Len(answer)))

\* C24: when a trailing packet of an aggregation is invalid or carries an
\* unexpected command code, the fetch reads nothing after it: the packets
\* read are the first frames of the answer up to that packet at most, and
\* every frame after the last packet read is still unread on the bus.
C24_AbortLeavesRestUnread ==
    (op.name \in FetchOps /\ EnvelopeFirst /\ OffendingAt # {})
    => /\ \A j \in OffendingAt : Len(reads) <= j
       /\ \A i \in 1..Len(reads) : FrameOf(reads[i]) = answer[i]
       /\ bus = AnswerFrom(Len(reads) + 1)

\* an envelope declaring 2 records, an offending packet in the place of the
\* first and a record after it: two packets are read, the record stays
C24_Witness ==
    /\ HasDriver
    /\ op.name \in FetchOps
    /\ EnvelopeFirst
    /\ DeclaredCount(answer[1]) = 2
    /\ Len(answer) = 3
    /\ 2 \in OffendingAt
    /\ Accepted(op.name, answer[3])
    /\ Len(reads) = 2
    /\ bus = answer[3]
    /\ ret = "False"

(***************************************************************************)
(* Properties of a fetch whose first packet is refused (SpecFetch).         *)
(***************************************************************************)
\* the operation of this step is a fetch whose first response packet is
\* invalid or is not an info envelope
FirstPacketRefused ==
    /\ op'.name \in FetchOps \cup ByIdOps
    /\ Len(reads') >= 1
    /\ ~reads'[1].valid \/ reads'[1].command # 41

\* C25: when the first response packet of a fetch is invalid or is not an
\* info envelope, the fetch reports failure, reads no further packet, and
\* leaves the blocks snapshot, the arrows snapshot, the learned-id count and
\* the name mapping as they were before the call.
C25_FirstPacketFailure ==
    [][FirstPacketRefused
       => /\ ret' = "False"
          /\ Len(reads') = 1
          /\ blocks' = blocks
          /\ arrows' = arrows
          /\ nLearned' = nLearned
          /\ idToName' = idToName]_vars

\* What the fetches do guarantee: no further read and an unchanged session
\* in every fetch, and the failure value in the fetches that return their
\* handler's result.
FirstPacketRefusedKeepsSession ==
    [][FirstPacketRefused
       => /\ op'.name \in FetchOps => ret' = "False"
          /\ Len(reads') = 1
          /\ blocks' = blocks
          /\ arrows' = arrows
          /\ nLearned' = nLearned
          /\ idToName' = idToName]_vars

(***************************************************************************)
(* Frame of the single-mode fetches (SpecSnapshot).                        *)
(***************************************************************************)
BlocksOnlyOps == BlocksOps \cup {"request_blocks_by_id"}
ArrowsOnlyOps == ArrowsOps \cup {"request_arrows_by_id"}

\* C26: a blocks-only fetch (request_blocks, request_blocks_learned,
\* request_blocks_by_id) never changes the arrows snapshot, an arrows-only
\* fetch never changes the blocks snapshot, whether the fetch succeeds or
\* fails, and neither changes the name mapping.
C26_SingleModeFrame ==
    [][/\ op'.name \in BlocksOnlyOps => (arrows' = arrows /\ idToName' = idToName)
       /\ op'.name \in ArrowsOnlyOps => (blocks' = blocks /\ idToName' = idToName)]_vars

\* a blocks-only fetch has failed after replacing the blocks snapshot, in a
\* session that holds arrows and a name
C26_Witness ==
    /\ HasDriver
    /\ op.name \in BlocksOnlyOps
    /\ ret # "True"
    /\ Len(reads) >= 2
    /\ blocks # <<>>
    /\ arrows # <<>>
    /\ None \notin {arrows[i] : i \in 1..Len(arrows)}
    /\ DOMAIN idToName # {}

(***************************************************************************)
(* Properties of successive reads (SpecCodec).                             *)
(***************************************************************************)
\* the bytes the bus delivered to the successive reads
StreamRead == Concat(answer) \o cTail

\* C27: from the sentinel byte at the start of a frame, one _get_response
\* call takes 4 header bytes and then (declared length + 1) bytes, 6 +
\* declared length in all; on well-formed packets placed back to back,
\* successive calls return the packets one per call, in order, and leave
\* the bytes behind them unread.
C27_FramedReads ==
    cStage = "stream"
    => /\ cWire[1] = 85
       /\ cConsumed = 6 + cWire[4]
       /\ FrameOf(reads[1]) = SubSeq(StreamRead, 1, 6 + cWire[4])
       /\ Len(reads[1].data) = cWire[4]
       /\ cWire = _send_command(cCommand, cData)
          => /\ \A i \in 1..Len(reads) : FrameOf(reads[i]) = answer[i] /\ reads[i].valid
             /\ bus = AnswerFrom(Len(reads) + 1) \o cTail

\* two calls have returned two packets in order, the first with 0x55 bytes
\* in its payload, and left the byte behind them on the bus
C27_Witness ==
    /\ cStage = "stream"
    /\ cData = <<85, 85>>
    /\ Len(reads) = 2
    /\ FrameOf(reads[1]) = cWire
    /\ FrameOf(reads[2]) = answer[2]
    /\ reads[2].data = <<85, 0>>
    /\ bus = cTail
    /\ cTail # <<>>

\* a frame that declares more than it holds: the call takes the declared
\* number of bytes, out of the packet behind it
C27_WitnessDeclared ==
    /\ cStage = "stream"
    /\ cWire[4] > Len(cData)
    /\ cConsumed = 6 + cWire[4]
    /\ ~reads[1].valid

(***************************************************************************)
(* Termination of _get_response (SpecSync).                                *)
(***************************************************************************)
SentinelDelivered == cWire[1] = 85

\* C28: _get_response returns if and only if the bus eventually delivers a
\* byte equal to 0x55.  It returns only after such a byte; once one is
\* delivered it returns; on a bus that never delivers one the call stays in
\* its loop, it never returns a result or an error, and the count of bytes
\* it has discarded passes every bound (here: reaches MaxDiscard and stays).
C28_SyncTermination ==
    /\ [](cStage = "returned" => SentinelDelivered)
    /\ (<>SentinelDelivered) => <>(cStage = "returned")
    /\ ([]~SentinelDelivered) => <>[](cStage = "sync" /\ cConsumed = MaxDiscard)

\* the call has returned a packet after discarding bytes
C28_Witness ==
    /\ cStage = "returned"
    /\ cConsumed = MaxDiscard
    /\ cResponse.valid
    /\ cResponse.header = 85
    /\ Len(cResponse.data) = 2

(***************************************************************************)
(* Properties of the learned-id count (SpecLearn).                         *)
(***************************************************************************)
\* the operation of this step wrote one learn command carrying id n
LearnSent(n) ==
    /\ Len(written') = 1
    /\ FrameValid(written'[1])
    /\ FrameCommand(written'[1]) = 54
    /\ Len(FramePayload(written'[1])) = 2
    /\ FramePayload(written'[1])[1] + 256 * FramePayload(written'[1])[2] = n

\* C29: learn_new increases the learned-id count by exactly one and sends
\* one learn command carrying the new count; learn_same sends one learn
\* command carrying the current count and leaves it unchanged.  A forget
\* sets the count to 0, a successful fetch sets it to the number k its
\* envelope reports, and no other operation changes it: so j learn_new calls
\* after a forget (after such a fetch), with no fetch in between, end with a
\* learn command carrying j (k + j).
\* The session is one __init__ left with its I2C driver (HasDriver).
C29_LearnCounter ==
    [][HasDriver =>
       /\ op'.name = "learn_new" => (nLearned' = nLearned + 1 /\ LearnSent(nLearned + 1))
       /\ op'.name = "learn_same" => (nLearned' = nLearned /\ LearnSent(nLearned))
       /\ op'.name \in ForgetOps => nLearned' = 0
       /\ (op'.name \in FetchOps \cup ByIdOps /\ ret' \in {"True", "None"} /\ ReadInSequence')
          => nLearned' = Field16(reads'[1].data, 1)
       /\ op'.name \notin FetchOps \cup ByIdOps \cup ForgetOps \cup {"learn_new"}
          => nLearned' = nLearned]_vars

\* a learn_new call has sent id MaxLearned + 2 = 3: three calls after a
\* forget, or two after a fetch that reported one learned id
C29_Witness ==
    /\ HasDriver
    /\ op.name = "learn_new"
    /\ nLearned = MaxLearned + 2
    /\ nLearned >= 3
    /\ FramePayload(written[1]) = <<nLearned, 0>>

\* the knock of the last is_connected inside begin succeeded: the probe
\* found the device and the first packet read is a valid OK
BeginConnected ==
    /\ op.id = 1
    /\ Len(reads) >= 1
    /\ reads[1].valid
    /\ reads[1].command = 46

\* the mixed fetch of the last begin succeeded: after the knock answer a
\* valid info envelope was read, then exactly the records it declares, each
\* a valid block or arrow packet
BeginFetched ==
    /\ Len(reads) >= 2
    /\ reads[2].valid
    /\ reads[2].command = 41
    /\ Len(reads[2].data) >= 6
    /\ Len(reads) = 2 + Field16(reads[2].data, 0)
    /\ \A i \in 3..Len(reads) :
          /\ reads[i].valid
          /\ reads[i].command \in {42, 43}
          /\ Len(reads[i].data) >= 10

\* C30: begin returns success exactly when is_connected succeeds and the
\* mixed fetch that follows succeeds; when is_connected fails, begin
\* returns failure, writes no fetch command, and leaves both snapshots and
\* the learned-id count as they were before the call.
\* The session is one __init__ left with its I2C driver (HasDriver).
C30_Begin ==
    [][(HasDriver /\ op'.name = "begin")
       => /\ (ret' = "True") <=> (BeginConnected' /\ BeginFetched')
          /\ BeginConnected'
             => /\ Len(written') = 2
                /\ FrameCommand(written'[2]) = kCommandRequest
          /\ ~BeginConnected'
             => /\ ret' = "False"
                /\ \A i \in 1..Len(written') :
                      FrameCommand(written'[i]) # kCommandRequest
                /\ blocks' = blocks
                /\ arrows' = arrows
                /\ nLearned' = nLearned]_vars

\* begin was refused at the knock while both snapshots and the learned-id
\* count held something: only the knock was written
C30_Witness ==
    /\ HasDriver
    /\ op.name = "begin"
    /\ op.id = 1
    /\ reads[1].command = 61
    /\ ret = "False"
    /\ Len(written) = 1
    /\ blocks # <<>>
    /\ arrows # <<>>
    /\ nLearned > 0

WaitOps == {"wait_for_objects_of_interest", "wait_for_lines_of_interest"}

\* the snapshot a wait_for_* call looks at, and the record code of its mode
WaitSnapshot == IF op.name = "wait_for_objects_of_interest" THEN blocks ELSE arrows

WaitRecordCode == IF op.name = "wait_for_objects_of_interest" THEN 42 ELSE 43

\* C31: a wait_for_* call that has returned leaves in the snapshot of its
\* mode at least one record, every entry is a decoded record and none a
\* placeholder, and the fetch that ended the wait succeeded: the last
\* packet it read is a valid record of the mode.
C31_WaitEndsOnDecodedRecord ==
    (op.name \in WaitOps /\ ret = "None")
    => /\ Len(WaitSnapshot) >= 1
       /\ \A i \in 1..Len(WaitSnapshot) : WaitSnapshot[i] # None
       /\ reads # <<>>
       /\ reads[Len(reads)].valid
       /\ reads[Len(reads)].command = WaitRecordCode

\* C32: every 16-bit field of a decoded record is data[2k] + 256*data[2k+1]
\* for its field index k: the envelope gives record count, learned-id count
\* and frame number (k = 0, 1, 2), a block x center, y center, width, height
\* and id (k = 0..4), an arrow x origin, y origin, x target, y target and id
\* (k = 0..4); every decoded value lies in 0..65535.
C32_LittleEndianFields ==
    (op.name = "request" /\ ret = "True")
    => LET e == reads[1].data
           info == _ReturnInfo(reads[1])
       IN  /\ info = [nBlocksAndArrows |-> e[1] + 256 * e[2],
                      nIDs             |-> e[3] + 256 * e[4],
                      frameNumber      |-> e[5] + 256 * e[6]]
           /\ {info.nBlocksAndArrows, info.nIDs, info.frameNumber} \subseteq 0..65535
           /\ nLearned = e[3] + 256 * e[4]
           /\ Len(reads) = 1 + e[1] + 256 * e[2]
           /\ \A i \in 2..Len(reads) :
                 LET r == reads[i].data
                 IN  /\ reads[i].command = 42
                        => /\ blocks = <<Block(reads[i])>>
                           /\ blocks[1] = [xCenter |-> r[1] + 256 * r[2],
                                           yCenter |-> r[3] + 256 * r[4],
                                           width   |-> r[5] + 256 * r[6],
                                           height  |-> r[7] + 256 * r[8],
                                           id      |-> r[9] + 256 * r[10]]
                           /\ \A f \in DOMAIN blocks[1] : blocks[1][f] \in 0..65535
                    /\ reads[i].command = 43
                        => /\ arrows = <<Arrow(reads[i])>>
                           /\ arrows[1] = [xOrigin |-> r[1] + 256 * r[2],
                                           yOrigin |-> r[3] + 256 * r[4],
                                           xTarget |-> r[5] + 256 * r[6],
                                           yTarget |-> r[7] + 256 * r[8],
                                           id      |-> r[9] + 256 * r[10]]
                           /\ \A f \in DOMAIN arrows[1] : arrows[1][f] \in 0..65535

\* a block was decoded from the payload FF 00 00 01 FF FF 00 00 00 01 under
\* an envelope reporting 65535 learned ids
C32_Witness ==
    /\ op.name = "request"
    /\ ret = "True"
    /\ Len(reads) = 2
    /\ reads[2].data = <<255, 0, 0, 1, 255, 255, 0, 0, 0, 1>>
    /\ blocks = <<[xCenter |-> 255, yCenter |-> 256, width |-> 65535, height |-> 0,
                   id |-> 256]>>
    /\ nLearned = 65535

\* a pass of ram_object's loop has just called drivetrain.straight
RamStep == rams' = rams + 1

\* C33: the ram is executed only after the basket block was seen
\* horizontally centered within the deadzone in 6 consecutive passes of the
\* loop: at the pass that rams, the 6 passes before it each fetched a frame
\* that showed the basket inside the deadzone.
C33_RamAfterSixCenteredFrames ==
    [][RamStep => centered_run >= kAlignFrames]_vars

\* what the script does guarantee: it rams only with its own count at 6
RamOnlyAtFullCount ==
    [][RamStep => (current_state = 2 /\ align_counter >= kAlignFrames)]_vars

\* the final state of ram_object: the branch that stops and sleeps for ever
\* has been entered, with both wheel speeds 0
RamFinal == pc = "final" /\ left_speed = 0 /\ right_speed = 0

\* C34: the ram is executed at most once per run, and after it the
\* controller enters the final state with both wheel speeds set to 0, and
\* from then on commands no motion and does not leave that state: once the
\* ram is done the script is on its way to the final state or in it, and
\* has not ended anywhere else.
C34_RamOnceThenFinal ==
    /\ [](rams <= 1)
    /\ [](rams = 1 => (pc = "loop" \/ RamFinal))
    /\ [][RamFinal => RamFinal']_vars

\* the same as a progress property: after the ram the final state is reached
RamLeadsToFinal == (rams = 1) ~> RamFinal

\* what holds whatever the device answers: one ram at most, and after it no
\* speed is commanded but 0 and no state is entered but the final one
RamOnceThenNoMotion ==
    /\ [](rams <= 1)
    /\ [][rams = 1 => /\ rams' = 1
                      /\ current_state' = 3
                      /\ <<left_speed', right_speed'>> \in {<<left_speed, right_speed>>,
                                                            <<0, 0>>}]_vars
    /\ [][RamFinal => RamFinal']_vars

(***************************************************************************)
(* Properties of track_object (SpecTrack).                                 *)
(***************************************************************************)
\* x_history and area_history are the measurements of the frames of seen_run
HistoriesHoldSeenFrames ==
    /\ x_history = [i \in 1..Len(seen_run) |-> seen_run[i].x]
    /\ area_history = [i \in 1..Len(seen_run) |-> seen_run[i].area]

\* desired_area, once set, keeps its value
DesiredAreaKept == desired_area # None => desired_area' = desired_area

\* C35: in track_object x_history and area_history have the same length, at
\* most SMOOTH_WINDOW and at least 1 whenever the smoothed values are
\* computed, and hold the most recent consecutive frames in which a tracked
\* block was seen, both being empty after a frame with no tracked block; and
\* desired_area, once set on first detection, is never changed again
C35_HistoriesOfSeenFrames ==
    /\ [](/\ Len(x_history) = Len(area_history)
          /\ Len(x_history) <= SMOOTH_WINDOW
          /\ HistoriesHoldSeenFrames)
    /\ [][DesiredAreaKept]_vars

\* what the script's own bookkeeping does keep: the two histories have the
\* same length, at most SMOOTH_WINDOW, hold positive areas only, and
\* desired_area is set once, at the end of the first calibration
TrackHistoriesBounded ==
    /\ [](/\ Len(x_history) = Len(area_history)
          /\ Len(x_history) <= SMOOTH_WINDOW
          /\ \A i \in 1..Len(area_history) : area_history[i] > 0
          /\ (pc = "calibrate" => desired_area = None /\ x_history # <<>>))
    /\ [][DesiredAreaKept]_vars

====
